---- MODULE Spec2Model ----
(***************************************************************************)
(* today-api: date-indexed content resolution (endpoints/*.js) and the     *)
(* generation scripts (scripts/generate*.js) that fill the per-day files.  *)
(* JavaScript strings that the code transforms character by character     *)
(* (toLowerCase) are sequences of one-character strings; Str turns such a  *)
(* sequence into the text used in paths and messages.                     *)
(***************************************************************************)
EXTENDS Integers, Sequences, FiniteSets, TLC

VARIABLES
  fs,             \* the files under the repository root: path -> content
  dirs,           \* the directories that exist
  access,         \* the last file-system call: [op, path]
  request,        \* the arguments of the last resolver call
  response,       \* what that call gave back: [threw, value]
  domain,         \* the content domain whose script is running
  mode,           \* "idle", "full", "resume", "summarize"
  pc,             \* where the script is: "idle", "awaiting", "delaying", "done", "exited"
  startMonth,     \* the resume point
  startDay,
  month,          \* the loop variables of the run
  day,
  processedFiles, \* the run's processed-file list
  processedDays,
  totalDays,
  skippedDays,
  delayMs,        \* the delay being waited for while pc = "delaying"
  calls,          \* the collaborator calls issued so far, oldest first
  returned,       \* how the last of them ended: [threw, value] or [threw, message]
  env,            \* process.env: the names of the variables that are set
  served          \* the calls of the resolver answered so far, oldest first

\* process.env after dotenv.config(), with and without the API credential
WithCredential    == {"OPENAI_API_KEY"}
WithoutCredential == {}

fsVars  == <<fs, dirs, access>>
reqVars == <<request, response>>
runVars == <<env, domain, mode, pc, startMonth, startDay, month, day, processedFiles,
             processedDays, totalDays, skippedDays, delayMs, calls, returned>>
vars == <<fsVars, reqVars, runVars, served>>

-----------------------------------------------------------------------------
(* Bounds of the model *)

\* largest day number a resolver request is made with
MaxDay == 32
\* largest month number a resolver request is made with
MaxMonthNumber == 13
\* longest processed-file list handed to the summary builder
MaxListLen == 3
\* largest number of items of a document the collaborator returns
MaxItems == 3
\* how many of a run's first collaborator calls may return anything;
\* the later calls return a document with MaxItems items
VaryCalls == 1
\* an earlier full run was interrupted before this date: the per-day files
\* of the earlier dates exist when a script starts
InterruptedMonth == 6
InterruptedDay == 15

-----------------------------------------------------------------------------
(* Strings *)

LowerOf == [A |-> "a", B |-> "b", C |-> "c", D |-> "d", E |-> "e", F |-> "f",
            G |-> "g", H |-> "h", I |-> "i", J |-> "j", K |-> "k", L |-> "l",
            M |-> "m", N |-> "n", O |-> "o", P |-> "p", Q |-> "q", R |-> "r",
            S |-> "s", T |-> "t", U |-> "u", V |-> "v", W |-> "w", X |-> "x",
            Y |-> "y", Z |-> "z"]

UpperOf == [a |-> "A", b |-> "B", c |-> "C", d |-> "D", e |-> "E", f |-> "F",
            g |-> "G", h |-> "H", i |-> "I", j |-> "J", k |-> "K", l |-> "L",
            m |-> "M", n |-> "N", o |-> "O", p |-> "P", q |-> "Q", r |-> "R",
            s |-> "S", t |-> "T", u |-> "U", v |-> "V", w |-> "W", x |-> "X",
            y |-> "Y", z |-> "Z"]

\* toLowerCaseChar as it would be if the month name were used as given
toLowerCaseCharKept(c) == c

toLowerCaseChar(c) == IF c \in DOMAIN LowerOf THEN LowerOf[c] ELSE c

toUpperCaseChar(c) == IF c \in DOMAIN UpperOf THEN UpperOf[c] ELSE c

\* String.prototype.toLowerCase on a character sequence
RECURSIVE toLowerCase(_)
toLowerCase(s) ==
  IF s = <<>> THEN <<>> ELSE <<toLowerCaseChar(Head(s))>> \o toLowerCase(Tail(s))

RECURSIVE Str(_)
Str(s) == IF s = <<>> THEN "" ELSE Head(s) \o Str(Tail(s))

\* padStart as it would be if the day were not padded
padStartNone(s, n, fill) == s

\* String(day).padStart(n, "0")
RECURSIVE padStart(_, _, _)
padStart(s, n, fill) == IF Len(s) >= n THEN s ELSE padStart(fill \o s, n, fill)

-----------------------------------------------------------------------------
(* The three content domains *)

Domains == {"historicalEvents", "weirdHolidays", "bloomingPlants"}

\* name of the item list of a document, per domain
ItemsKey == [historicalEvents |-> "events",
             weirdHolidays    |-> "holidays",
             bloomingPlants   |-> "plants"]

\* name of the item count of a processed-file record, per domain
CountKey == [historicalEvents |-> "eventCount",
             weirdHolidays    |-> "holidayCount",
             bloomingPlants   |-> "plantCount"]

NotFoundText == [historicalEvents |-> "No saved data found for ",
                 weirdHolidays    |-> "No weird holiday data found for ",
                 bloomingPlants   |-> "No blooming plants data found for "]

NotFoundHint ==
  [historicalEvents |-> "Run the yearly generation script to create historical data files",
   weirdHolidays    |-> "Run the weird holidays generation script to create holiday data files",
   bloomingPlants   |-> "Run the blooming plants generation script to create plant data files"]

ReadErrorText == [historicalEvents |-> "Error reading saved data: ",
                  weirdHolidays    |-> "Error reading weird holiday data: ",
                  bloomingPlants   |-> "Error reading blooming plants data: "]

-----------------------------------------------------------------------------
(* Calendar *)

daysInMonth == <<31, 28, 31, 30, 31, 30, 31, 31, 30, 31, 30, 31>>

LongMonthNames ==
  << <<"J","a","n","u","a","r","y">>,
     <<"F","e","b","r","u","a","r","y">>,
     <<"M","a","r","c","h">>,
     <<"A","p","r","i","l">>,
     <<"M","a","y">>,
     <<"J","u","n","e">>,
     <<"J","u","l","y">>,
     <<"A","u","g","u","s","t">>,
     <<"S","e","p","t","e","m","b","e","r">>,
     <<"O","c","t","o","b","e","r">>,
     <<"N","o","v","e","m","b","e","r">>,
     <<"D","e","c","e","m","b","e","r">> >>

\* new Date(2024, month - 1, 1).toLocaleString("default", { month: "long" }):
\* the Date constructor carries a month index outside 0..11 into the
\* neighbouring year, so the name is that of the index modulo 12.
monthLong(m) == LongMonthNames[((m - 1) % 12) + 1]

-----------------------------------------------------------------------------
(* Files and JSON *)

\* JSON.stringify(value, null, 2): the text of a file that holds value
JSONstringify(value) == [kind |-> "json", value |-> value]

\* JSONparse as it would be if the resolver marked what it has read
JSONparseMarked(content) ==
  IF content.kind = "json"
    THEN [threw |-> FALSE, value |-> ("cached" :> TRUE) @@ content.value]
    ELSE [threw |-> TRUE, message |-> content.message]

\* JSON.parse(fs.readFileSync(filePath, "utf8")): the value, or the thrown error
JSONparse(content) ==
  IF content.kind = "json"
    THEN [threw |-> FALSE, value |-> content.value]
    ELSE [threw |-> TRUE, message |-> content.message]

\* fs.existsSync(filePath)
existsSync(files, filePath) == filePath \in DOMAIN files

\* A path is the sequence of its segments, from the repository root:
\* <<"data", "weirdHolidays", "march", "05.json">> is data/weirdHolidays/march/05.json.
\* path.join(__dirname, "../data")
dataDir == <<"data">>

\* path.join(a, b)
pathJoin(a, b) == a \o b

RECURSIVE commonPrefixLen(_, _)
commonPrefixLen(a, b) ==
  IF a = <<>> \/ b = <<>> \/ Head(a) # Head(b) THEN 0
  ELSE 1 + commonPrefixLen(Tail(a), Tail(b))

\* path.relative(from, to): up from what is left of from, then down into to
RECURSIVE upwards(_)
upwards(n) == IF n = 0 THEN <<>> ELSE <<"..">> \o upwards(n - 1)

pathRelative(from, to) ==
  LET n == commonPrefixLen(from, to)
  IN  upwards(Len(from) - n) \o SubSeq(to, n + 1, Len(to))

-----------------------------------------------------------------------------
(* Resolver: get<Domain>FromFile(month, day) *)

NumberArg(n) == [type |-> "number", val |-> n]
StringArg(s) == [type |-> "string", val |-> s]
UndefinedArg == [type |-> "undefined"]

\* the month as a lowercase name
resolverMonthName(monthArg) ==
  IF monthArg.type = "number"
    THEN toLowerCase(monthLong(monthArg.val))
    ELSE toLowerCase(monthArg.val)

\* `${String(day).padStart(2, "0")}.json`
resolverFileName(dayArg) == padStart(ToString(dayArg), 2, "0") \o ".json"

\* path.join(dataDir, monthName, fileName)
resolverFilePath(dom, monthArg, dayArg) ==
  pathJoin(pathJoin(pathJoin(dataDir, <<dom>>), <<Str(resolverMonthName(monthArg))>>),
           <<resolverFileName(dayArg)>>)

\* notFoundResult as it would be if the date were built from the file name
notFoundResultPadded(dom, monthName, dayArg) ==
  ("error" :> (NotFoundText[dom] \o monthName \o " " \o ToString(dayArg)))
  @@ ("date" :> (monthName \o " " \o padStart(ToString(dayArg), 2, "0")))
  @@ (ItemsKey[dom] :> <<>>)
  @@ ("message" :> NotFoundHint[dom])

notFoundResult(dom, monthName, dayArg) ==
  ("error" :> (NotFoundText[dom] \o monthName \o " " \o ToString(dayArg)))
  @@ ("date" :> (monthName \o " " \o ToString(dayArg)))
  @@ (ItemsKey[dom] :> <<>>)
  @@ ("message" :> NotFoundHint[dom])

\* readErrorResult as it would be if an unreadable file were reported as missing
readErrorResultAsNotFound(dom, monthName, dayArg, message) ==
  ("error" :> (NotFoundText[dom] \o monthName \o " " \o ToString(dayArg)))
  @@ ("date" :> (monthName \o " " \o ToString(dayArg)))
  @@ (ItemsKey[dom] :> <<>>)

readErrorResult(dom, monthName, dayArg, message) ==
  ("error" :> (ReadErrorText[dom] \o message))
  @@ ("date" :> (monthName \o " " \o ToString(dayArg)))
  @@ (ItemsKey[dom] :> <<>>)

getFromFile(files, dom, monthArg, dayArg) ==
  IF monthArg.type \notin {"number", "string"}
    THEN \* month.toLowerCase is not a function
         [threw |-> TRUE, value |-> [name |-> "TypeError"]]
    ELSE
      LET monthName == Str(resolverMonthName(monthArg))
          filePath  == resolverFilePath(dom, monthArg, dayArg)
      IN  IF ~existsSync(files, filePath)
            THEN [threw |-> FALSE, value |-> notFoundResult(dom, monthName, dayArg)]
            ELSE LET data == JSONparse(files[filePath])
                 IN  IF data.threw
                       THEN [threw |-> FALSE,
                             value |-> readErrorResult(dom, monthName, dayArg, data.message)]
                       ELSE [threw |-> FALSE, value |-> data.value]

-----------------------------------------------------------------------------
(* Generator: documents, paths and records *)

domainDir(dom) == pathJoin(dataDir, <<dom>>)

\* monthDir as it would be if the name of the month kept its capital letter
monthDirCapitalized(dom, m) == pathJoin(domainDir(dom), <<Str(monthLong(m))>>)

\* path.join(<domain>Dir, monthName.toLowerCase())
monthDir(dom, m) == pathJoin(domainDir(dom), <<Str(toLowerCase(monthLong(m)))>>)

\* path.join(monthDir, `${String(day).padStart(2, "0")}.json`)
generatorFilePath(dom, m, d) ==
  pathJoin(monthDir(dom, m), <<padStart(ToString(d), 2, "0") \o ".json">>)

\* `${monthName} ${day}`
dateString(m, d) == Str(monthLong(m)) \o " " \o ToString(d)

\* the items of a document; run tells one generation from another
RECURSIVE Items(_, _)
Items(n, run) == IF n = 0 THEN <<>> ELSE Append(Items(n - 1, run), [id |-> n, run |-> run])

\* response.output_parsed: a document of the domains schema
contentDocument(dom, m, d, n, run) ==
  ("date" :> dateString(m, d)) @@ (ItemsKey[dom] :> Items(n, run))

\* response.output_parsed when the response holds nothing that parses
NullDocument == [jstype |-> "null"]

\* errorData as it would be if the error record kept no item list
errorDataWithoutItems(dom, m, d, message) ==
  ("error" :> message) @@ ("date" :> dateString(m, d))

\* the error record a run stores for a date whose generation failed
errorData(dom, m, d, message) ==
  ("error" :> message)
  @@ ("date" :> dateString(m, d))
  @@ (ItemsKey[dom] :> <<>>)

\* plants.plants ? plants.plants.length : 0
itemCount(dom, doc) ==
  IF ItemsKey[dom] \in DOMAIN doc THEN Len(doc[ItemsKey[dom]]) ELSE 0

successRecord(dom, m, d, doc) ==
  ("month" :> monthLong(m)) @@ ("day" :> d)
  @@ ("file" :> generatorFilePath(dom, m, d))
  @@ (CountKey[dom] :> itemCount(dom, doc))

failureRecord(dom, m, d, message) ==
  ("month" :> monthLong(m)) @@ ("day" :> d)
  @@ ("file" :> generatorFilePath(dom, m, d))
  @@ ("error" :> message)
  @@ (CountKey[dom] :> 0)

-----------------------------------------------------------------------------
(* Generator: summary and file index *)

TotalKey == [historicalEvents |-> "totalEvents",
             weirdHolidays    |-> "totalHolidays",
             bloomingPlants   |-> "totalPlants"]

DaysWithKey == [historicalEvents |-> "totalDaysWithEvents",
                weirdHolidays    |-> "totalDaysWithHolidays",
                bloomingPlants   |-> "totalDaysWithPlants"]

AverageKey == [historicalEvents |-> "averageEventsPerDay",
               weirdHolidays    |-> "averageHolidaysPerDay",
               bloomingPlants   |-> "averagePlantsPerDay"]

SummaryFileName == [historicalEvents |-> "summary.json",
                    weirdHolidays    |-> "weird-holidays-summary.json",
                    bloomingPlants   |-> "blooming-plants-summary.json"]

IndexFileName == [historicalEvents |-> "file-index.json",
                  weirdHolidays    |-> "weird-holidays-index.json",
                  bloomingPlants   |-> "blooming-plants-index.json"]

summaryFile(dom) == pathJoin(dataDir, <<SummaryFileName[dom]>>)
indexFile(dom)   == pathJoin(dataDir, <<IndexFileName[dom]>>)

\* new Date().toISOString(): the clock is not modelled
Timestamp == "now"

\* the condition of `if (fileInfo.error)`: the property is there and is not ""
hasTruthyError(fileInfo) == "error" \in DOMAIN fileInfo /\ fileInfo["error"] # ""

RECURSIVE gcd(_, _)
gcd(a, b) == IF b = 0 THEN a ELSE gcd(b, a % b)

\* the JavaScript number a / b (b > 0), as a fraction in lowest terms
Quotient(a, b) == [num |-> a \div gcd(a, b), den |-> b \div gcd(a, b)]

\* the number 0
Zero == [num |-> 0, den |-> 1]

\* processedFiles.forEach, the three counters: what one record adds
statisticsOf(dom, fileInfo) ==
  IF hasTruthyError(fileInfo)
    THEN [total |-> 0, totalDaysWith |-> 0, totalErrors |-> 1]
  ELSE IF fileInfo[CountKey[dom]] > 0
    THEN [total |-> fileInfo[CountKey[dom]], totalDaysWith |-> 1, totalErrors |-> 0]
  ELSE [total |-> 0, totalDaysWith |-> 0, totalErrors |-> 0]

\* the counters after the records of files[lo..hi]; the list is halved so that
\* a year of records is counted without deep recursion
RECURSIVE countStatistics(_, _, _, _)
countStatistics(dom, files, lo, hi) ==
  IF lo > hi THEN [total |-> 0, totalDaysWith |-> 0, totalErrors |-> 0]
  ELSE IF lo = hi THEN statisticsOf(dom, files[lo])
  ELSE LET mid == (lo + hi) \div 2
           a == countStatistics(dom, files, lo, mid)
           b == countStatistics(dom, files, mid + 1, hi)
       IN  [total         |-> a.total + b.total,
            totalDaysWith |-> a.totalDaysWith + b.totalDaysWith,
            totalErrors   |-> a.totalErrors + b.totalErrors]

\* indexEntry as it would be if the path were stored as the run built it
indexEntryAbsolute(dom, fileInfo) ==
  ("file" :> fileInfo["file"])
  @@ (CountKey[dom] :> fileInfo[CountKey[dom]])
  @@ ("hasError" :> hasTruthyError(fileInfo))

\* fileIndex[month.toLowerCase()][day] = {file, count, hasError}
indexEntry(dom, fileInfo) ==
  ("file" :> pathRelative(dataDir, fileInfo["file"]))
  @@ (CountKey[dom] :> fileInfo[CountKey[dom]])
  @@ ("hasError" :> hasTruthyError(fileInfo))

\* the key of a record in the file index: fileInfo.month.toLowerCase()
indexKey(fileInfo) == Str(toLowerCase(fileInfo["month"]))

\* fileIndex[monthKey][fileInfo.day] = {...} for the first n records of a list:
\* a later record of the same day replaces the earlier one
RECURSIVE dayIndex(_, _, _)
dayIndex(dom, list, n) ==
  IF n = 0 THEN <<>>
  ELSE (list[n]["day"] :> indexEntry(dom, list[n])) @@ dayIndex(dom, list, n - 1)

\* the month keys of files[lo..hi], in list order (the list is halved so that a
\* year of records needs no deep recursion)
RECURSIVE indexKeys(_, _, _)
indexKeys(files, lo, hi) ==
  IF lo > hi THEN <<>>
  ELSE IF lo = hi THEN <<indexKey(files[lo])>>
  ELSE indexKeys(files, lo, (lo + hi) \div 2) \o indexKeys(files, (lo + hi) \div 2 + 1, hi)

\* the records among files[lo..hi] whose month key is k, in list order
RECURSIVE recordsOf(_, _, _, _, _)
recordsOf(files, keyed, k, lo, hi) ==
  IF lo > hi THEN <<>>
  ELSE IF keyed[lo] = k THEN <<files[lo]>> \o recordsOf(files, keyed, k, lo + 1, hi)
  ELSE recordsOf(files, keyed, k, lo + 1, hi)

\* processedFiles.forEach, the file index: one object per month key, filled
\* from the records of that month in list order
buildFileIndex(dom, files) ==
  LET keyed == indexKeys(files, 1, Len(files))
      ofMonth(k) == {i \in 1..Len(files) : keyed[i] = k}
  IN  [k \in {keyed[i] : i \in 1..Len(files)} |->
         LET lo == CHOOSE i \in ofMonth(k) : \A j \in ofMonth(k) : i <= j
             hi == CHOOSE i \in ofMonth(k) : \A j \in ofMonth(k) : i >= j
             list == recordsOf(files, keyed, k, lo, hi)
         IN  dayIndex(dom, list, Len(list))]

summaryObject(dom, files) ==
  LET st == countStatistics(dom, files, 1, Len(files))
  IN  ("generatedAt" :> Timestamp)
      @@ (TotalKey[dom] :> st.total)
      @@ (DaysWithKey[dom] :> st.totalDaysWith)
      @@ ("totalErrors" :> st.totalErrors)
      @@ (AverageKey[dom] :>
            IF st.totalDaysWith > 0 THEN Quotient(st.total, st.totalDaysWith) ELSE Zero)
      @@ ("totalFiles" :> Len(files))

IndexDescription ==
  [historicalEvents |-> "Index of all historicalEvents files organized by month and day",
   weirdHolidays    |-> "Index of all weird holiday files organized by month and day",
   bloomingPlants   |-> "Index of all blooming plants files organized by month and day"]

indexData(dom, files) ==
  [generatedAt |-> Timestamp,
   description |-> IndexDescription[dom],
   structure   |-> dom \o "/[month]/[day].json",
   files       |-> buildFileIndex(dom, files)]

\* generateSummaryAndIndex as it would be if a summary and an index that are
\* there already were kept
generateSummaryAndIndexKept(files, dom, list) ==
  files
  @@ (summaryFile(dom) :> JSONstringify(summaryObject(dom, list)))
  @@ (indexFile(dom) :> JSONstringify(indexData(dom, list)))

\* the files after generate<Domain>SummaryAndIndex(processedFiles, dataDir)
generateSummaryAndIndex(files, dom, list) ==
  (summaryFile(dom) :> JSONstringify(summaryObject(dom, list)))
  @@ (indexFile(dom) :> JSONstringify(indexData(dom, list)))
  @@ files

-----------------------------------------------------------------------------
(* Generator: the full run and the resume run *)

ShortDelay == 2000
LongDelay  == 5000
ProgressWindow == 31

\* the full run of the weird-holidays script writes no progress snapshot
ProgressFileName == [historicalEvents |-> "generation-progress.json",
                     bloomingPlants   |-> "blooming-plants-generation-progress.json"]

progressFile(dom) == pathJoin(dataDir, <<ProgressFileName[dom]>>)

\* processedFiles.slice(-n)
sliceLast(list, n) ==
  IF Len(list) <= n THEN list ELSE SubSeq(list, Len(list) - n + 1, Len(list))

progressData(list, done, total) ==
  [lastUpdated    |-> Timestamp,
   processedDays  |-> done,
   totalDays      |-> total,
   processedFiles |-> sliceLast(list, ProgressWindow)]

\* for (let month = 1; month <= 12; month++) totalDays += daysInMonth[month - 1]
RECURSIVE sumDays(_)
sumDays(m) == IF m > 12 THEN 0 ELSE daysInMonth[m] + sumDays(m + 1)

\* parseInt of an argument that does not begin with a number gives NaN. NaN
\* stands here as an integer that no run of the model is started with otherwise;
\* the comparisons the loops make are false when either side is NaN.
NaN == -1

\* a < b, a <= b and a === b of two numbers
lessThan(a, b) == a # NaN /\ b # NaN /\ a < b
lessOrEqual(a, b) == a # NaN /\ b # NaN /\ a <= b
strictEquals(a, b) == a # NaN /\ b # NaN /\ a = b

\* isSkipped as it would be if the start day itself were counted as skipped
isSkippedInclusive(m, d, sm, sd) == m < sm \/ (m = sm /\ d <= sd)

\* the condition under which the counting loops of a resume run skip a date
isSkipped(m, d, sm, sd) ==
  lessThan(m, sm) \/ (strictEquals(m, sm) /\ lessThan(d, sd))

\* the two nested loops that count totalDays and skippedDays of a resume run:
\* what the inner loop adds for the days of month m from day d on
RECURSIVE countMonth(_, _, _, _)
countMonth(m, d, sm, sd) ==
  IF d > daysInMonth[m] THEN [totalDays |-> 0, skippedDays |-> 0]
  ELSE LET rest == countMonth(m, d + 1, sm, sd)
       IN  [totalDays   |-> rest.totalDays + 1,
            skippedDays |-> rest.skippedDays + (IF isSkipped(m, d, sm, sd) THEN 1 ELSE 0)]

\* what the outer loop adds for the months from m on
RECURSIVE countDays(_, _, _)
countDays(m, sm, sd) ==
  IF m > 12 THEN [totalDays |-> 0, skippedDays |-> 0]
  ELSE LET here == countMonth(m, 1, sm, sd)
           rest == countDays(m + 1, sm, sd)
       IN  [totalDays   |-> here.totalDays + rest.totalDays,
            skippedDays |-> here.skippedDays + rest.skippedDays]

\* nextIteration as it would be if the inner loop stopped one day early
RECURSIVE nextIterationShort(_, _)
nextIterationShort(m, d) ==
  IF m > 12 THEN [done |-> TRUE, month |-> m, day |-> d]
  ELSE IF m >= 1 /\ d < daysInMonth[m] THEN [done |-> FALSE, month |-> m, day |-> d]
  ELSE nextIterationShort(m + 1, 1)

\* The two nested for loops, from the point where the inner loop tests day d of
\* month m: the next (month, day) whose body runs, or done when month passes 12.
\* daysInMonth[month - 1] is undefined outside 1..12 and the test is then false.
RECURSIVE nextIteration(_, _)
nextIteration(m, d) ==
  IF ~lessOrEqual(m, 12) THEN [done |-> TRUE, month |-> m, day |-> d]
  ELSE IF m >= 1 /\ lessOrEqual(d, daysInMonth[m])
    THEN [done |-> FALSE, month |-> m, day |-> d]
  ELSE nextIteration(m + 1, 1)

\* the months whose inner loop ends between testing (m, d) and the next iteration
monthsCompleted(m, d) ==
  {k \in m..(nextIteration(m, d).month - 1) : lessOrEqual(k, 12)}

\* the months whose directory is created on the way (first: m itself is entered)
monthsEntered(m, d, first) ==
  {k \in (IF first THEN m ELSE m + 1)..nextIteration(m, d).month : lessOrEqual(k, 12)}

\* new OpenAI() throws when process.env has no OPENAI_API_KEY
MissingCredentialMessage ==
  "The OPENAI_API_KEY environment variable is missing or empty"

\* what the collaborator may give back for a call
ReturnedDocuments(dom, m, d, nCalls) ==
  IF "OPENAI_API_KEY" \notin env THEN {}
  ELSE IF nCalls <= VaryCalls
    THEN {contentDocument(dom, m, d, 0, "new"),
          contentDocument(dom, m, d, MaxItems, "new"),
          NullDocument}
    ELSE {contentDocument(dom, m, d, MaxItems, "new")}

\* what the collaborator may throw for a call: the error's message. The call
\* for December 31 may fail in every run.
ThrownMessages(nCalls, m, d) ==
  IF "OPENAI_API_KEY" \notin env THEN {MissingCredentialMessage}
  ELSE IF nCalls <= VaryCalls THEN {"", "429 Rate limit reached"}
  ELSE IF m = 12 /\ d = 31 THEN {"429 Rate limit reached"}
  ELSE {}

\* reading plants.plants of null
nullMessage(dom) == "Cannot read properties of null (reading '" \o ItemsKey[dom] \o "')"

\* the files once the loop test of (m, d) has been passed: with the progress
\* snapshot of a full run when a month was completed on the way
withProgress(md, m, d, total) ==
  IF md = "full" /\ domain \in DOMAIN ProgressFileName /\ monthsCompleted(m, d) # {}
    THEN (progressFile(domain) :>
            JSONstringify(progressData(processedFiles, processedDays, total)))
         @@ fs
    ELSE fs

\* From the loop test of (m, d) to the next await: directories of the months
\* entered, the progress snapshot of a full run for the months completed, and
\* then either the next collaborator call or the summary and index.
Continue(md, m, d, first, total) ==
  LET r == nextIteration(m, d)
      snap == withProgress(md, m, d, total)
  IN  /\ dirs' = dirs \cup {domainDir(domain)}
                      \cup {monthDir(domain, k) : k \in monthsEntered(m, d, first)}
      /\ month' = r.month
      /\ day' = r.day
      /\ IF r.done
           THEN /\ fs' = generateSummaryAndIndex(snap, domain, processedFiles)
                /\ access' = [op |-> "writeFileSync", path |-> indexFile(domain)]
                /\ pc' = "done"
                /\ calls' = calls
           ELSE /\ fs' = snap
                /\ access' = [op |-> "mkdirSync", path |-> monthDir(domain, r.month)]
                /\ pc' = "awaiting"
                /\ calls' = Append(calls, <<r.month, r.day>>)

\* generateBloomingPlants(), generateWeirdHolidays(), generateYearlyHistory():
\* from the start to the first collaborator call
generateFull ==
  /\ mode' = "full"
  /\ totalDays' = sumDays(1)
  /\ Continue("full", 1, 1, TRUE, sumDays(1))
  /\ UNCHANGED <<env, served, domain, startMonth, startDay, processedFiles, processedDays,
                 skippedDays, delayMs, returned, reqVars>>

\* the script of a generator is started without arguments
StartFull ==
  /\ pc = "idle"
  /\ generateFull

\* the launchers: run<Domain>Generation.js
LauncherDomains == {"bloomingPlants", "weirdHolidays"}

\* a launcher is started: it exits with status 1 when the credential is not
\* set, and asks for confirmation otherwise
Launch ==
  /\ pc = "idle"
  /\ domain \in LauncherDomains
  /\ pc' = IF "OPENAI_API_KEY" \in env THEN "prompting" ELSE "exited"
  /\ UNCHANGED <<fsVars, reqVars, env, served, domain, mode, startMonth, startDay, month, day,
                 processedFiles, processedDays, totalDays, skippedDays, delayMs,
                 calls, returned>>

\* the answer is y or yes: the full run starts
AnswerYes ==
  /\ pc = "prompting"
  /\ generateFull

\* any other answer: "Operation cancelled", process.exit(0)
AnswerNo ==
  /\ pc = "prompting"
  /\ pc' = "cancelled"
  /\ UNCHANGED <<fsVars, reqVars, env, served, domain, mode, startMonth, startDay, month, day,
                 processedFiles, processedDays, totalDays, skippedDays, delayMs,
                 calls, returned>>

\* StartResume as it would be if a resume point that is no date of the calendar
\* were refused
StartResumeValidated(sm, sd) ==
  /\ pc = "idle"
  /\ mode' = "resume"
  /\ startMonth' = sm
  /\ startDay' = sd
  /\ LET c == countDays(1, sm, sd)
     IN  /\ totalDays' = c.totalDays
         /\ skippedDays' = c.skippedDays
         /\ IF sm \in 1..12 /\ sd \in 1..daysInMonth[sm]
              THEN Continue("resume", sm, sd, TRUE, c.totalDays)
              ELSE /\ pc' = "exited"
                   /\ UNCHANGED <<fs, dirs, access, month, day, calls>>
  /\ UNCHANGED <<env, served, domain, processedFiles, processedDays, delayMs, returned,
                 reqVars>>

\* StartResume as it would be if the start month were begun at its first day
StartResumeFromFirstDay(sm, sd) ==
  /\ pc = "idle"
  /\ mode' = "resume"
  /\ startMonth' = sm
  /\ startDay' = sd
  /\ LET c == countDays(1, sm, sd)
     IN  /\ totalDays' = c.totalDays
         /\ skippedDays' = c.skippedDays
         /\ Continue("resume", sm, 1, TRUE, c.totalDays)
  /\ UNCHANGED <<env, served, domain, processedFiles, processedDays, delayMs, returned, reqVars>>

\* resume<Domain>FromDate(startMonth, startDay): from the start to the first call
StartResume(sm, sd) ==
  /\ pc = "idle"
  /\ mode' = "resume"
  /\ startMonth' = sm
  /\ startDay' = sd
  /\ LET c == countDays(1, sm, sd)
     IN  /\ totalDays' = c.totalDays
         /\ skippedDays' = c.skippedDays
         /\ Continue("resume", sm, sd, TRUE, c.totalDays)
  /\ UNCHANGED <<env, served, domain, processedFiles, processedDays, delayMs, returned, reqVars>>

\* Failed as it would be if the error record were written only where there
\* is no file yet
FailedKeepingContent(message) ==
  /\ fs' = fs @@ (generatorFilePath(domain, month, day) :>
                    JSONstringify(errorData(domain, month, day, message)))
  /\ access' = [op |-> "writeFileSync", path |-> generatorFilePath(domain, month, day)]
  /\ processedFiles' = Append(processedFiles, failureRecord(domain, month, day, message))
  /\ delayMs' = LongDelay
  /\ pc' = "delaying"
  /\ UNCHANGED <<dirs, env, served, domain, mode, startMonth, startDay, month, day, processedDays,
                 totalDays, skippedDays, calls, reqVars>>

\* Failed as it would be if a failed date were counted as processed
FailedCounted(message) ==
  /\ fs' = (generatorFilePath(domain, month, day) :>
              JSONstringify(errorData(domain, month, day, message))) @@ fs
  /\ access' = [op |-> "writeFileSync", path |-> generatorFilePath(domain, month, day)]
  /\ processedFiles' = Append(processedFiles, failureRecord(domain, month, day, message))
  /\ processedDays' = processedDays + 1
  /\ delayMs' = LongDelay
  /\ pc' = "delaying"
  /\ UNCHANGED <<dirs, env, served, domain, mode, startMonth, startDay, month, day,
                 totalDays, skippedDays, calls, reqVars>>

\* Failed as it would be if the error of a date were thrown on
FailedAndStopped(message) ==
  /\ fs' = (generatorFilePath(domain, month, day) :>
              JSONstringify(errorData(domain, month, day, message))) @@ fs
  /\ access' = [op |-> "writeFileSync", path |-> generatorFilePath(domain, month, day)]
  /\ processedFiles' = Append(processedFiles, failureRecord(domain, month, day, message))
  /\ delayMs' = delayMs
  /\ pc' = "exited"
  /\ UNCHANGED <<dirs, env, served, domain, mode, startMonth, startDay, month, day, processedDays,
                 totalDays, skippedDays, calls, reqVars>>

\* the catch block of one date: error record, failure record, long delay
Failed(message) ==
  /\ fs' = (generatorFilePath(domain, month, day) :>
              JSONstringify(errorData(domain, month, day, message))) @@ fs
  /\ access' = [op |-> "writeFileSync", path |-> generatorFilePath(domain, month, day)]
  /\ processedFiles' = Append(processedFiles, failureRecord(domain, month, day, message))
  /\ delayMs' = LongDelay
  /\ pc' = "delaying"
  /\ UNCHANGED <<dirs, env, served, domain, mode, startMonth, startDay, month, day, processedDays,
                 totalDays, skippedDays, calls, reqVars>>

\* the awaited call resolves: the document is written and recorded; a null
\* document is written too, then reading its item list throws into the catch block
CollaboratorReturns ==
  /\ pc = "awaiting"
  /\ \E doc \in ReturnedDocuments(domain, month, day, Len(calls)) :
       /\ returned' = [threw |-> FALSE, value |-> doc]
       /\ IF doc = NullDocument
         THEN Failed(nullMessage(domain))
         ELSE /\ fs' = (generatorFilePath(domain, month, day) :> JSONstringify(doc)) @@ fs
              /\ access' = [op |-> "writeFileSync",
                            path |-> generatorFilePath(domain, month, day)]
              /\ processedFiles' =
                   Append(processedFiles, successRecord(domain, month, day, doc))
              /\ processedDays' = processedDays + 1
              /\ delayMs' = ShortDelay
              /\ pc' = "delaying"
              /\ UNCHANGED <<dirs, env, served, domain, mode, startMonth, startDay, month, day,
                             totalDays, skippedDays, calls, reqVars>>

\* the awaited call rejects
CollaboratorThrows ==
  /\ pc = "awaiting"
  /\ \E message \in ThrownMessages(Len(calls), month, day) :
       /\ returned' = [threw |-> TRUE, message |-> message]
       /\ Failed(message)

\* DelayElapsed as it would be if the call were not awaited
DelayElapsedNotAwaited ==
  /\ pc \in {"awaiting", "delaying"}
  /\ Continue(mode, month, day + 1, FALSE, totalDays)
  /\ UNCHANGED <<env, served, domain, mode, startMonth, startDay, processedFiles, processedDays,
                 totalDays, skippedDays, delayMs, returned, reqVars>>

\* the delay is over: the loops go on to the next date, or the run ends
DelayElapsed ==
  /\ pc = "delaying"
  /\ Continue(mode, month, day + 1, FALSE, totalDays)
  /\ UNCHANGED <<env, served, domain, mode, startMonth, startDay, processedFiles, processedDays,
                 totalDays, skippedDays, delayMs, returned, reqVars>>

\* MonthMkdirFails as it would be if the summary and the index were written
\* on the way out
MonthMkdirFailsWithSummary ==
  /\ pc = "delaying"
  /\ monthsEntered(month, day + 1, FALSE) # {}
  /\ fs' = generateSummaryAndIndex(withProgress(mode, month, day + 1, totalDays),
                                   domain, processedFiles)
  /\ access' = [op |-> "mkdirSync", path |-> monthDir(domain, month + 1)]
  /\ pc' = "exited"
  /\ UNCHANGED <<dirs, env, served, domain, mode, startMonth, startDay, month, day, processedFiles,
                 processedDays, totalDays, skippedDays, delayMs, calls, returned, reqVars>>

\* fs.mkdirSync(monthDir) throws inside the outer try: process.exit(1)
MonthMkdirFails ==
  /\ pc = "delaying"
  /\ monthsEntered(month, day + 1, FALSE) # {}
  /\ fs' = IF mode = "full" /\ domain \in DOMAIN ProgressFileName
             THEN (progressFile(domain) :>
                     JSONstringify(progressData(processedFiles, processedDays, totalDays)))
                  @@ fs
             ELSE fs
  /\ access' = [op |-> "mkdirSync", path |-> monthDir(domain, month + 1)]
  /\ pc' = "exited"
  /\ UNCHANGED <<dirs, env, served, domain, mode, startMonth, startDay, month, day, processedFiles,
                 processedDays, totalDays, skippedDays, delayMs, calls, returned, reqVars>>

\* what a step that ends the process leaves as it is
exitFrame ==
  UNCHANGED <<dirs, env, served, domain, startMonth, startDay, month, day, processedFiles,
              processedDays, skippedDays, delayMs, calls, reqVars>>

\* fs.mkdirSync of the domain directory throws, before the outer try: the
\* promise of the run is rejected and nothing of the run is done
DomainMkdirFails ==
  /\ pc = "idle"
  /\ mode' = "full"
  /\ totalDays' = sumDays(1)
  /\ access' = [op |-> "mkdirSync", path |-> domainDir(domain)]
  /\ pc' = "exited"
  /\ UNCHANGED <<fs, returned>>
  /\ exitFrame

\* the call of a date fails and the error record cannot be written: the
\* catch block throws into the outer try, process.exit(1)
ErrorRecordWriteFails ==
  /\ pc = "awaiting"
  /\ \E message \in ThrownMessages(Len(calls), month, day) :
       returned' = [threw |-> TRUE, message |-> message]
  /\ access' = [op |-> "writeFileSync", path |-> generatorFilePath(domain, month, day)]
  /\ pc' = "exited"
  /\ UNCHANGED <<fs, mode, totalDays>>
  /\ exitFrame

\* the progress snapshot of a completed month cannot be written
ProgressWriteFails ==
  /\ pc = "delaying"
  /\ mode = "full"
  /\ domain \in DOMAIN ProgressFileName
  /\ monthsCompleted(month, day + 1) # {}
  /\ access' = [op |-> "writeFileSync", path |-> progressFile(domain)]
  /\ pc' = "exited"
  /\ UNCHANGED <<fs, mode, totalDays, returned>>
  /\ exitFrame

\* the loops are over and the summary cannot be written
SummaryWriteFails ==
  /\ pc = "delaying"
  /\ nextIteration(month, day + 1).done
  /\ fs' = withProgress(mode, month, day + 1, totalDays)
  /\ access' = [op |-> "writeFileSync", path |-> summaryFile(domain)]
  /\ pc' = "exited"
  /\ UNCHANGED <<mode, totalDays, returned>>
  /\ exitFrame

\* the summary is written and the file index cannot be
IndexWriteFails ==
  /\ pc = "delaying"
  /\ nextIteration(month, day + 1).done
  /\ fs' = (summaryFile(domain) :> JSONstringify(summaryObject(domain, processedFiles)))
           @@ withProgress(mode, month, day + 1, totalDays)
  /\ access' = [op |-> "writeFileSync", path |-> indexFile(domain)]
  /\ pc' = "exited"
  /\ UNCHANGED <<mode, totalDays, returned>>
  /\ exitFrame

-----------------------------------------------------------------------------
(* Generator: generateSingleDate(month, day) *)

\* the scripts that export generateSingleDate
SingleDomains == {"historicalEvents", "bloomingPlants"}

\* the error a promise is rejected with
ErrorOf(message) == [threw |-> TRUE, value |-> [message |-> message]]

\* StartSingle as it would be if the file were opened for writing before the
\* call is made
StartSingleTruncating(m, d) ==
  /\ pc = "idle"
  /\ mode' = "single"
  /\ month' = m
  /\ day' = d
  /\ request' = [type |-> "single", domain |-> domain, month |-> m, day |-> d]
  /\ response' = response
  /\ dirs' = dirs \cup {domainDir(domain), monthDir(domain, m)}
  /\ fs' = (generatorFilePath(domain, m, d) :> [kind |-> "text", message |-> "Unexpected end of JSON input"])
           @@ fs
  /\ access' = [op |-> "mkdirSync", path |-> monthDir(domain, m)]
  /\ calls' = Append(calls, <<m, d>>)
  /\ pc' = "awaitingOne"
  /\ UNCHANGED <<env, served, domain, startMonth, startDay, processedFiles, processedDays,
                 totalDays, skippedDays, delayMs, returned>>

\* from the call to the await: both directories are created
StartSingle(m, d) ==
  /\ pc = "idle"
  /\ mode' = "single"
  /\ month' = m
  /\ day' = d
  /\ request' = [type |-> "single", domain |-> domain, month |-> m, day |-> d]
  /\ response' = response
  /\ dirs' = dirs \cup {domainDir(domain), monthDir(domain, m)}
  /\ access' = [op |-> "mkdirSync", path |-> monthDir(domain, m)]
  /\ calls' = Append(calls, <<m, d>>)
  /\ pc' = "awaitingOne"
  /\ UNCHANGED <<fs, env, served, domain, startMonth, startDay, processedFiles, processedDays,
                 totalDays, skippedDays, delayMs, returned>>

\* SingleReturns as it would be if the summary and the index were written too
SingleReturnsWithSummary ==
  /\ pc = "awaitingOne"
  /\ \E doc \in ReturnedDocuments(domain, month, day, Len(calls)) :
       /\ returned' = [threw |-> FALSE, value |-> doc]
       /\ fs' = generateSummaryAndIndex(
                  (generatorFilePath(domain, month, day) :> JSONstringify(doc)) @@ fs,
                  domain,
                  IF doc = NullDocument THEN <<>>
                  ELSE <<successRecord(domain, month, day, doc)>>)
       /\ access' = [op |-> "writeFileSync", path |-> generatorFilePath(domain, month, day)]
       /\ IF doc = NullDocument
            THEN /\ response' = ErrorOf(nullMessage(domain))
                 /\ pc' = "rejected"
            ELSE /\ response' = [threw |-> FALSE,
                                 value |-> successRecord(domain, month, day, doc)]
                 /\ pc' = "resolved"
  /\ UNCHANGED <<dirs, env, served, domain, mode, startMonth, startDay, month, day, processedFiles,
                 processedDays, totalDays, skippedDays, delayMs, calls, request>>

\* the awaited call resolves: the document is written and its record returned;
\* a null document is written too, then reading its item list throws, and the
\* catch block throws the error on
SingleReturns ==
  /\ pc = "awaitingOne"
  /\ \E doc \in ReturnedDocuments(domain, month, day, Len(calls)) :
       /\ returned' = [threw |-> FALSE, value |-> doc]
       /\ fs' = (generatorFilePath(domain, month, day) :> JSONstringify(doc)) @@ fs
       /\ access' = [op |-> "writeFileSync", path |-> generatorFilePath(domain, month, day)]
       /\ IF doc = NullDocument
            THEN /\ response' = ErrorOf(nullMessage(domain))
                 /\ pc' = "rejected"
            ELSE /\ response' = [threw |-> FALSE,
                                 value |-> successRecord(domain, month, day, doc)]
                 /\ pc' = "resolved"
  /\ UNCHANGED <<dirs, env, served, domain, mode, startMonth, startDay, month, day, processedFiles,
                 processedDays, totalDays, skippedDays, delayMs, calls, request>>

\* SingleThrows as it would be if the failure were recorded as a run records it
SingleThrowsRecorded ==
  /\ pc = "awaitingOne"
  /\ \E message \in ThrownMessages(Len(calls), month, day) :
       /\ returned' = [threw |-> TRUE, message |-> message]
       /\ fs' = (generatorFilePath(domain, month, day) :>
                   JSONstringify(errorData(domain, month, day, message))) @@ fs
       /\ access' = [op |-> "writeFileSync", path |-> generatorFilePath(domain, month, day)]
       /\ response' = [threw |-> FALSE,
                       value |-> failureRecord(domain, month, day, message)]
       /\ pc' = "resolved"
  /\ UNCHANGED <<dirs, env, served, domain, mode, startMonth, startDay, month, day, processedFiles,
                 processedDays, totalDays, skippedDays, delayMs, calls, request>>

\* the awaited call rejects: the catch block logs the error and throws it on
SingleThrows ==
  /\ pc = "awaitingOne"
  /\ \E message \in ThrownMessages(Len(calls), month, day) :
       /\ returned' = [threw |-> TRUE, message |-> message]
       /\ response' = ErrorOf(message)
       /\ pc' = "rejected"
  /\ UNCHANGED <<fs, dirs, access, env, served, domain, mode, startMonth, startDay, month, day,
                 processedFiles, processedDays, totalDays, skippedDays, delayMs,
                 calls, request>>

\* fs.mkdirSync throws for the directory of the domain or of the month
SingleMkdirFails(m, d) ==
  /\ pc = "idle"
  /\ mode' = "single"
  /\ month' = m
  /\ day' = d
  /\ request' = [type |-> "single", domain |-> domain, month |-> m, day |-> d]
  /\ response' = ErrorOf("EACCES: permission denied, mkdir")
  /\ access' = [op |-> "mkdirSync", path |-> monthDir(domain, m)]
  /\ pc' = "rejected"
  /\ UNCHANGED <<fs, dirs, env, served, domain, startMonth, startDay, processedFiles, processedDays,
                 totalDays, skippedDays, delayMs, calls, returned>>

-----------------------------------------------------------------------------
(* The state before a script starts *)

\* the dates the two nested loops visit from (m, d) to the end of month m
RECURSIVE monthDates(_, _)
monthDates(m, d) ==
  IF d > daysInMonth[m] THEN <<>> ELSE <<(<<m, d>>)>> \o monthDates(m, d + 1)

\* ... and from the first day of month m to the end of the year
RECURSIVE yearDates(_)
yearDates(m) == IF m > 12 THEN <<>> ELSE monthDates(m, 1) \o yearDates(m + 1)

YearDates == yearDates(1)

AllDates == {YearDates[i] : i \in 1..Len(YearDates)}

Before(a, b) == a[1] < b[1] \/ (a[1] = b[1] /\ a[2] < b[2])

NoRequest == [type |-> "none"]
NoAccess  == [op |-> "none", path |-> <<>>]
NoOutcome == [threw |-> FALSE, value |-> "none"]

\* the per-day files an earlier, interrupted full run left behind: those of
\* YearDates[lo..hi], each holding a document with one item
RECURSIVE earlierFiles(_, _, _)
earlierFiles(dom, lo, hi) ==
  IF lo > hi THEN <<>>
  ELSE IF lo = hi
    THEN generatorFilePath(dom, YearDates[lo][1], YearDates[lo][2]) :>
           JSONstringify(contentDocument(dom, YearDates[lo][1], YearDates[lo][2],
                                         1, "earlier"))
  ELSE earlierFiles(dom, lo, (lo + hi) \div 2)
       @@ earlierFiles(dom, (lo + hi) \div 2 + 1, hi)

EarlierDates == {dt \in AllDates : Before(dt, <<InterruptedMonth, InterruptedDay>>)}

EarlierFiles(dom) == earlierFiles(dom, 1, Cardinality(EarlierDates))

EarlierDirs(dom) ==
  {dataDir, domainDir(dom)} \cup {monthDir(dom, dt[1]) : dt \in EarlierDates}

NoCall ==
  /\ request = NoRequest
  /\ response = NoRequest
  /\ served = <<>>

NoRun ==
  /\ mode = "idle"
  /\ pc = "idle"
  /\ startMonth = 0
  /\ startDay = 0
  /\ month = 0
  /\ day = 0
  /\ processedFiles = <<>>
  /\ processedDays = 0
  /\ totalDays = 0
  /\ skippedDays = 0
  /\ delayMs = 0
  /\ calls = <<>>
  /\ returned = NoOutcome


-----------------------------------------------------------------------------
(* Resolver calls *)

\* Resolve as it would be if results were kept by day alone and given again
ResolveMemoized(dom, monthArg, dayArg) ==
  /\ pc \in {"idle", "done", "exited", "resolved", "rejected"}
  /\ request' = [type |-> "resolve", domain |-> dom, month |-> monthArg, day |-> dayArg]
  /\ response' = IF request.type = "resolve" /\ request.day = dayArg
                   THEN response
                   ELSE getFromFile(fs, dom, monthArg, dayArg)
  /\ served' = Append(served, [domain |-> dom, month |-> monthArg, day |-> dayArg,
                                result |-> response'])
  /\ access' = access
  /\ UNCHANGED <<fs, dirs, runVars>>

\* the resolver is called while no script is running
Resolve(dom, monthArg, dayArg) ==
  /\ pc \in {"idle", "done", "exited", "resolved", "rejected"}
  /\ request' = [type |-> "resolve", domain |-> dom, month |-> monthArg, day |-> dayArg]
  /\ response' = getFromFile(fs, dom, monthArg, dayArg)
  /\ served' = Append(served, [domain |-> dom, month |-> monthArg, day |-> dayArg,
                                result |-> getFromFile(fs, dom, monthArg, dayArg)])
  /\ access' =
       IF monthArg.type \notin {"number", "string"} THEN access
       ELSE IF existsSync(fs, resolverFilePath(dom, monthArg, dayArg))
         THEN [op |-> "readFileSync", path |-> resolverFilePath(dom, monthArg, dayArg)]
       ELSE [op |-> "existsSync", path |-> resolverFilePath(dom, monthArg, dayArg)]
  /\ UNCHANGED <<fs, dirs, runVars>>

\* String.prototype.toUpperCase on a character sequence
RECURSIVE toUpperCase(_)
toUpperCase(s) ==
  IF s = <<>> THEN <<>> ELSE <<toUpperCaseChar(Head(s))>> \o toUpperCase(Tail(s))

\* every letter in the other case
RECURSIVE swapCase(_)
swapCase(s) ==
  IF s = <<>> THEN <<>>
  ELSE <<IF Head(s) \in DOMAIN LowerOf THEN LowerOf[Head(s)] ELSE toUpperCaseChar(Head(s))>>
       \o swapCase(Tail(s))

\* the name of month m as a caller may write it
CaseVariants(m) ==
  {monthLong(m), toLowerCase(monthLong(m)), toUpperCase(monthLong(m)),
   swapCase(monthLong(m))}

\* the month arguments of the modelled calls
MonthArgs ==
  {NumberArg(n) : n \in 0..MaxMonthNumber}
  \cup {StringArg(v) : v \in UNION {CaseVariants(m) : m \in 1..12}}
  \cup {UndefinedArg}

DayArgs == 0..MaxDay

\* the dates whose per-day file may be there when the resolver is called
SeedDate  == <<3, 5>>
OtherDate == <<12, 25>>

\* a file that does not hold JSON, with the message JSON.parse throws for it
CorruptText == [kind |-> "text", message |-> "Unexpected end of JSON input"]

\* what the file of a date may hold
StoredContents(dom, dt) ==
  {JSONstringify(contentDocument(dom, dt[1], dt[2], 1, "earlier")),
   JSONstringify(errorData(dom, dt[1], dt[2], "429 Rate limit reached")),
   JSONstringify("date" :> dateString(dt[1], dt[2])),
   CorruptText}

SeededFiles(dom) ==
  {a @@ b :
     a \in {<<>>} \cup {generatorFilePath(dom, SeedDate[1], SeedDate[2]) :> c :
                           c \in StoredContents(dom, SeedDate)},
     b \in {<<>>,
             generatorFilePath(dom, OtherDate[1], OtherDate[2]) :>
               JSONstringify(contentDocument(dom, OtherDate[1], OtherDate[2],
                                             1, "earlier"))}}

\* the directories above a file
dirsOf(files) ==
  {dataDir} \cup UNION {{SubSeq(f, 1, 2), SubSeq(f, 1, 3)} : f \in DOMAIN files}

InitResolve ==
  /\ domain \in Domains
  /\ env = WithCredential
  /\ fs \in SeededFiles(domain)
  /\ dirs = dirsOf(fs) \cup {domainDir(domain)}
  /\ access = NoAccess
  /\ NoCall
  /\ NoRun

\* one call of the resolver of the domain whose files are there
NextResolve ==
  /\ request = NoRequest
  /\ \E monthArg \in MonthArgs, dayArg \in DayArgs : Resolve(domain, monthArg, dayArg)

SpecResolve == InitResolve /\ [][NextResolve]_vars

\* the arguments of the calls that follow one another: a date by number and
\* by name, dates with and without a file, a day February does not have, and
\* no month at all
RepeatedArgs ==
  {<<NumberArg(SeedDate[1]), SeedDate[2]>>,
   <<StringArg(toUpperCase(monthLong(SeedDate[1]))), SeedDate[2]>>,
   <<NumberArg(1), SeedDate[2]>>,
   <<NumberArg(OtherDate[1]), OtherDate[2]>>,
   <<NumberArg(2), 30>>,
   <<UndefinedArg, SeedDate[2]>>}

\* one more call of the resolver, after any others
NextResolveMany ==
  /\ Len(served) < MaxListLen
  /\ \E a \in RepeatedArgs : Resolve(domain, a[1], a[2])

SpecResolveMany == InitResolve /\ [][NextResolveMany]_vars

-----------------------------------------------------------------------------
(* The HTTP handlers *)

\* registerEndpoint("GET", path, handler, description)
RoutePath == [historicalEvents |-> "/historical-events",
              weirdHolidays    |-> "/weird-holidays",
              bloomingPlants   |-> "/blooming-plants"]

\* the body of the answer when an exception is caught in the handler
FailureText == [historicalEvents |-> "Failed to fetch historical events",
                weirdHolidays    |-> "Failed to fetch weird holidays",
                bloomingPlants   |-> "Failed to fetch blooming plants"]

\* today.getMonth() + 1 and today.getDate(): any day of any year
TodayDates == AllDates \cup {<<2, 29>>}

\* Handle as it would be if the result were wrapped into an object
HandleWrapped(dom, today, sendFails) ==
  LET r == getFromFile(fs, dom, NumberArg(today[1]), today[2])
  IN  /\ request' = [type |-> "GET", path |-> RoutePath[dom], domain |-> dom,
                     today |-> today, sendFails |-> sendFails]
      /\ response' = IF r.threw \/ sendFails
                       THEN [status |-> 500, body |-> [error |-> FailureText[dom]]]
                       ELSE [status |-> 200, body |-> [data |-> r.value]]
      /\ served' = Append(served, [domain |-> dom, month |-> NumberArg(today[1]),
                                    day |-> today[2], result |-> r])
      /\ access' =
           IF existsSync(fs, resolverFilePath(dom, NumberArg(today[1]), today[2]))
             THEN [op |-> "readFileSync",
                   path |-> resolverFilePath(dom, NumberArg(today[1]), today[2])]
             ELSE [op |-> "existsSync",
                   path |-> resolverFilePath(dom, NumberArg(today[1]), today[2])]
      /\ UNCHANGED <<fs, dirs, runVars>>

\* The handler of GET <path> on the day today. sendFails: res.json(result)
\* throws, which is the one place in the try block an exception can come from
\* when the month is a number.
Handle(dom, today, sendFails) ==
  LET r == getFromFile(fs, dom, NumberArg(today[1]), today[2])
  IN  /\ request' = [type |-> "GET", path |-> RoutePath[dom], domain |-> dom,
                     today |-> today, sendFails |-> sendFails]
      /\ response' = IF r.threw \/ sendFails
                       THEN [status |-> 500, body |-> [error |-> FailureText[dom]]]
                       ELSE [status |-> 200, body |-> r.value]
      /\ served' = Append(served, [domain |-> dom, month |-> NumberArg(today[1]),
                                    day |-> today[2], result |-> r])
      /\ access' =
           IF existsSync(fs, resolverFilePath(dom, NumberArg(today[1]), today[2]))
             THEN [op |-> "readFileSync",
                   path |-> resolverFilePath(dom, NumberArg(today[1]), today[2])]
             ELSE [op |-> "existsSync",
                   path |-> resolverFilePath(dom, NumberArg(today[1]), today[2])]
      /\ UNCHANGED <<fs, dirs, runVars>>

\* one request to the endpoint of the domain whose files are there
NextServe ==
  /\ request = NoRequest
  /\ \E today \in TodayDates, sendFails \in BOOLEAN : Handle(domain, today, sendFails)

SpecServe == InitResolve /\ [][NextServe]_vars

-----------------------------------------------------------------------------
(* Generation runs *)

\* the resume points of the modelled runs: the date the earlier run was
\* interrupted at, the last day of the year, a day past the end of November
\* and a month past the end of the year
ResumePoints ==
  {<<InterruptedMonth, InterruptedDay>>, <<12, 31>>, <<11, 31>>, <<13, 1>>}

\* the dates the resolver is asked for once a script has ended
ResolvedAfterRun == {<<1, 1>>, SeedDate, <<InterruptedMonth, InterruptedDay>>, <<12, 31>>}

InitRun ==
  /\ domain \in Domains
  /\ env = WithCredential
  /\ fs = EarlierFiles(domain)
  /\ dirs = EarlierDirs(domain)
  /\ access = NoAccess
  /\ NoCall
  /\ NoRun

\* one call of the resolver after the script has ended
ResolveAfterRun ==
  /\ pc # "idle"
  /\ request = NoRequest
  /\ \E dt \in ResolvedAfterRun :
       \E monthArg \in {NumberArg(dt[1]), StringArg(monthLong(dt[1]))} :
         Resolve(domain, monthArg, dt[2])

NextRun ==
  \/ StartFull
  \/ \E dt \in ResumePoints : StartResume(dt[1], dt[2])
  \/ CollaboratorReturns
  \/ CollaboratorThrows
  \/ DelayElapsed
  \/ MonthMkdirFails
  \/ ResolveAfterRun

\* the script is started without arguments, or with resume M D
SpecRun == InitRun /\ [][NextRun]_vars

NextFullRun ==
  \/ StartFull
  \/ CollaboratorReturns
  \/ CollaboratorThrows
  \/ DelayElapsed
  \/ MonthMkdirFails
  \/ ResolveAfterRun

\* the script is started without arguments
SpecFullRun == InitRun /\ [][NextFullRun]_vars

NextResumeRun ==
  \/ \E dt \in ResumePoints : StartResume(dt[1], dt[2])
  \/ CollaboratorReturns
  \/ CollaboratorThrows
  \/ DelayElapsed
  \/ MonthMkdirFails
  \/ ResolveAfterRun

\* the script is started with resume M D
SpecResumeRun == InitRun /\ [][NextResumeRun]_vars

\* the processed-file records of an earlier full run that came to its end:
\* those of YearDates[lo..hi], each of a document with one item
RECURSIVE earlierRecords(_, _, _)
earlierRecords(dom, lo, hi) ==
  IF lo > hi THEN <<>>
  ELSE IF lo = hi
    THEN <<successRecord(dom, YearDates[lo][1], YearDates[lo][2],
                         contentDocument(dom, YearDates[lo][1], YearDates[lo][2],
                                         1, "earlier"))>>
  ELSE earlierRecords(dom, lo, (lo + hi) \div 2)
       \o earlierRecords(dom, (lo + hi) \div 2 + 1, hi)

\* what an earlier full run left in the data directory: the per-day files of
\* the year, the progress snapshot of its last month, the summary and the index
FullRunFiles(dom) ==
  LET list  == earlierRecords(dom, 1, Len(YearDates))
      files == earlierFiles(dom, 1, Len(YearDates))
      snap  == IF dom \in DOMAIN ProgressFileName
                 THEN (progressFile(dom) :>
                         JSONstringify(progressData(list, Len(list), sumDays(1))))
                      @@ files
                 ELSE files
  IN  generateSummaryAndIndex(snap, dom, list)

FilesAfterFullRun ==
  [historicalEvents |-> FullRunFiles("historicalEvents"),
   weirdHolidays    |-> FullRunFiles("weirdHolidays"),
   bloomingPlants   |-> FullRunFiles("bloomingPlants")]

InitAfterFullRun ==
  /\ domain \in Domains
  /\ env = WithCredential
  /\ fs = FilesAfterFullRun[domain]
  /\ dirs = {dataDir, domainDir(domain)} \cup {monthDir(domain, m) : m \in 1..12}
  /\ access = NoAccess
  /\ NoCall
  /\ NoRun

\* the script is started with resume M D after a full run has come to its end
SpecResumeAfterFullRun == InitAfterFullRun /\ [][NextResumeRun]_vars

\* the script is started without arguments or with resume M D after a full run
\* has come to its end
SpecRerun == InitAfterFullRun /\ [][NextRun]_vars

\* resume points outside the calendar: a month past the end of the year, a
\* month that is no number, and days past the end of November, of February and
\* of December
OutsidePoints == {<<13, 1>>, <<NaN, 1>>, <<11, 31>>, <<2, 29>>, <<12, 32>>}

NextResumeOutside ==
  \/ \E dt \in OutsidePoints : StartResume(dt[1], dt[2])
  \/ CollaboratorReturns
  \/ CollaboratorThrows
  \/ DelayElapsed
  \/ MonthMkdirFails
  \/ ResolveAfterRun

\* the script is started with resume M D, (M, D) being no date of the
\* calendar, after a full run has come to its end
SpecResumeOutside == InitAfterFullRun /\ [][NextResumeOutside]_vars

NextInfrastructure ==
  \/ StartFull
  \/ DomainMkdirFails
  \/ CollaboratorReturns
  \/ CollaboratorThrows
  \/ ErrorRecordWriteFails
  \/ DelayElapsed
  \/ MonthMkdirFails
  \/ ProgressWriteFails
  \/ SummaryWriteFails
  \/ IndexWriteFails
  \/ ResolveAfterRun

\* a full run in which a directory may not be created and a file not written
SpecInfrastructure == InitRun /\ [][NextInfrastructure]_vars

\* a fresh checkout: no data directory yet, the credential set or not
InitLaunch ==
  /\ domain \in Domains
  /\ env \in {WithCredential, WithoutCredential}
  /\ fs = <<>>
  /\ dirs = {}
  /\ access = NoAccess
  /\ NoCall
  /\ NoRun

NextLaunch ==
  \/ Launch
  \/ AnswerYes
  \/ AnswerNo
  \/ StartFull
  \/ CollaboratorReturns
  \/ CollaboratorThrows
  \/ DelayElapsed
  \/ MonthMkdirFails

\* a full run is started through its launcher, or the generator script itself
SpecLaunch == InitLaunch /\ [][NextLaunch]_vars

\* the dates generateSingleDate is called with: one whose file is there
\* already in every modelled state, dates whose file may not be, and a day
\* February does not have
SingleDates ==
  {<<1, 1>>, SeedDate, <<InterruptedMonth, InterruptedDay>>, <<9, 9>>, <<12, 31>>, <<2, 30>>}

\* generateSingleDate is called after an interrupted or a complete full run
InitSingle ==
  /\ domain \in SingleDomains
  /\ env = WithCredential
  /\ fs \in {EarlierFiles(domain), FilesAfterFullRun[domain]}
  /\ dirs = {dataDir, domainDir(domain)}
            \cup {SubSeq(f, 1, 3) : f \in {g \in DOMAIN fs : Len(g) = 4}}
  /\ access = NoAccess
  /\ NoCall
  /\ NoRun

NextSingle ==
  \/ \E dt \in SingleDates : StartSingle(dt[1], dt[2])
  \/ SingleReturns
  \/ SingleThrows
  \/ \E dt \in SingleDates : SingleMkdirFails(dt[1], dt[2])

\* the script is started with single M D
SpecSingle == InitSingle /\ [][NextSingle]_vars

\* one call of the resolver after a script of any kind has ended, for a date by
\* number or by name
ResolveGenerated ==
  /\ pc \in {"done", "exited", "resolved", "rejected"}
  /\ request.type # "resolve"
  /\ \E dt \in SingleDates :
       \E monthArg \in {NumberArg(dt[1]), StringArg(monthLong(dt[1]))} :
         Resolve(domain, monthArg, dt[2])

\* the script of a generator that has generateSingleDate is started with
\* single M D
StartSingleDate ==
  /\ domain \in SingleDomains
  /\ \E dt \in SingleDates : StartSingle(dt[1], dt[2])

NextGenerate ==
  \/ StartFull
  \/ \E dt \in ResumePoints : StartResume(dt[1], dt[2])
  \/ CollaboratorReturns
  \/ CollaboratorThrows
  \/ DelayElapsed
  \/ MonthMkdirFails
  \/ StartSingleDate
  \/ SingleReturns
  \/ SingleThrows
  \/ ResolveGenerated

\* the script is started without arguments, with resume M D or with single M D,
\* and the resolver is called when it has ended
SpecGenerate == InitRun /\ [][NextGenerate]_vars

-----------------------------------------------------------------------------
(* The summary of a short run *)

\* how the call for a date may have ended
Outcomes ==
  {[threw |-> FALSE, items |-> n] : n \in 0..MaxItems}
  \cup {[threw |-> TRUE, message |-> message] :
          message \in {"", "429 Rate limit reached"}}

\* the document or error record in the file of a date whose call ended as o
fileOf(dom, dt, o) ==
  JSONstringify(IF o.threw THEN errorData(dom, dt[1], dt[2], o.message)
                ELSE contentDocument(dom, dt[1], dt[2], o.items, "new"))

\* the processed-file record of that date
recordOf(dom, dt, o) ==
  IF o.threw THEN failureRecord(dom, dt[1], dt[2], o.message)
  ELSE successRecord(dom, dt[1], dt[2],
                     contentDocument(dom, dt[1], dt[2], o.items, "new"))

\* the last k dates of the year
LastDates(k) == SubSeq(YearDates, Len(YearDates) - k + 1, Len(YearDates))

RECURSIVE recordsOfRun(_, _, _, _)
recordsOfRun(dom, dates, os, n) ==
  IF n = 0 THEN <<>>
  ELSE Append(recordsOfRun(dom, dates, os, n - 1), recordOf(dom, dates[n], os[n]))

RECURSIVE filesOfRun(_, _, _, _)
filesOfRun(dom, dates, os, n) ==
  IF n = 0 THEN <<>>
  ELSE (generatorFilePath(dom, dates[n][1], dates[n][2]) :> fileOf(dom, dates[n], os[n]))
       @@ filesOfRun(dom, dates, os, n - 1)

\* A resume run over the last k dates of the year, after the call for
\* December 31 has ended and its file and record are written
InitSummarize ==
  \E k \in 1..MaxListLen :
    \E os \in [1..k -> Outcomes] :
      /\ domain \in Domains
      /\ env = WithCredential
      /\ mode = "resume"
      /\ pc = "delaying"
      /\ startMonth = 12
      /\ startDay = 32 - k
      /\ month = 12
      /\ day = 31
      /\ processedFiles = recordsOfRun(domain, LastDates(k), os, k)
      /\ processedDays = Cardinality({i \in 1..k : ~os[i].threw})
      /\ totalDays = sumDays(1)
      /\ skippedDays = sumDays(1) - k
      /\ delayMs = IF os[k].threw THEN LongDelay ELSE ShortDelay
      /\ calls = LastDates(k)
      /\ returned = IF os[k].threw THEN [threw |-> TRUE, message |-> os[k].message]
                    ELSE [threw |-> FALSE,
                          value |-> contentDocument(domain, 12, 31, os[k].items, "new")]
      /\ fs = filesOfRun(domain, LastDates(k), os, k) @@ EarlierFiles(domain)
      /\ dirs = EarlierDirs(domain) \cup {monthDir(domain, 12)}
      /\ access = [op |-> "writeFileSync", path |-> generatorFilePath(domain, 12, 31)]
      /\ NoCall

\* the run goes on to its end: the summary and the file index are written
SpecSummarize == InitSummarize /\ [][DelayElapsed]_vars

-----------------------------------------------------------------------------
(* What the properties are stated with *)

LowerMonthName ==
  <<"january", "february", "march", "april", "may", "june", "july", "august",
    "september", "october", "november", "december">>

NonLeapDays == <<31, 28, 31, 30, 31, 30, 31, 31, 30, 31, 30, 31>>

\* the day in two digits
TwoDigits(d) == IF d < 10 THEN "0" \o ToString(d) ELSE ToString(d)

\* data/<domainDir>/<lowercase month name>/<DD>.json
PerDayPath(dom, m, d) == <<"data", dom, LowerMonthName[m], TwoDigits(d) \o ".json">>

\* the ways to write the name of each month
NamesOfMonth ==
  <<CaseVariants(1), CaseVariants(2), CaseVariants(3), CaseVariants(4),
    CaseVariants(5), CaseVariants(6), CaseVariants(7), CaseVariants(8),
    CaseVariants(9), CaseVariants(10), CaseVariants(11), CaseVariants(12)>>

\* the months 1..12 that the month argument of the last resolver call names,
\* by number or by name in any letter case
RequestedMonths ==
  {m \in 1..12 :
     \/ request.month.type = "number" /\ request.month.val = m
     \/ request.month.type = "string" /\ request.month.val \in NamesOfMonth[m]}

IsMonthRequest == request.type = "resolve" /\ RequestedMonths # {}

RequestedMonth == CHOOSE m \in RequestedMonths : TRUE

RequestedPath == PerDayPath(request.domain, RequestedMonth, request.day)

-----------------------------------------------------------------------------
(* The resolver *)

\* C1: for a valid date whose per-day file exists and holds valid JSON, the
\* resolver returns exactly the document stored in the file, nothing added,
\* removed or changed, whatever the shape of the document.
C1_StoredDocumentReturned ==
  (/\ IsMonthRequest
   /\ request.day \in 1..NonLeapDays[RequestedMonth]
   /\ RequestedPath \in DOMAIN fs
   /\ fs[RequestedPath].kind = "json")
  => response = [threw |-> FALSE, value |-> fs[RequestedPath].value]

\* a stored document without item list has been returned as it is
C1_Witness ==
  /\ IsMonthRequest
  /\ request.day = SeedDate[2]
  /\ RequestedPath \in DOMAIN fs
  /\ fs[RequestedPath] = JSONstringify("date" :> "March 5")
  /\ response = [threw |-> FALSE, value |-> ("date" :> "March 5")]

\* C2: when no per-day file exists for (month, day), day in range or not, the
\* resolver returns, without throwing, a result with a non-empty error text, an
\* empty item list and the date "<lowercase month name> <day as given>".
C2_NotFoundResult ==
  (IsMonthRequest /\ RequestedPath \notin DOMAIN fs)
  => /\ ~response.threw
     /\ {"error", "date", ItemsKey[request.domain]} \subseteq DOMAIN response.value
     /\ response.value["error"] # ""
     /\ response.value[ItemsKey[request.domain]] = <<>>
     /\ response.value["date"] =
          LowerMonthName[RequestedMonth] \o " " \o ToString(request.day)

\* a day past the end of every month has been asked for and was not found
C2_Witness ==
  /\ IsMonthRequest
  /\ request.day = MaxDay
  /\ request.month = StringArg(toUpperCase(monthLong(SeedDate[1])))
  /\ ~response.threw
  /\ "date" \in DOMAIN response.value
  /\ response.value["date"] = "march " \o ToString(MaxDay)

\* C3: when the per-day file exists and does not hold valid JSON, the resolver
\* returns, without throwing, a result with an empty item list and an error
\* text that is not the text of the not-found result.
C3_ReadErrorResult ==
  (IsMonthRequest /\ RequestedPath \in DOMAIN fs /\ fs[RequestedPath].kind # "json")
  => /\ ~response.threw
     /\ {"error", ItemsKey[request.domain]} \subseteq DOMAIN response.value
     /\ response.value[ItemsKey[request.domain]] = <<>>
     /\ response.value["error"] # ""
     /\ response.value["error"] #
          NotFoundText[request.domain] \o LowerMonthName[RequestedMonth]
            \o " " \o ToString(request.day)

\* a file that holds no JSON has been read
C3_Witness ==
  /\ IsMonthRequest
  /\ RequestedPath \in DOMAIN fs
  /\ fs[RequestedPath] = CorruptText
  /\ ~response.threw
  /\ "error" \in DOMAIN response.value
  /\ response.value["error"] = ReadErrorText[request.domain] \o CorruptText.message

\* C4: a call with the name of month m, in any letter case, reads the path
\* that the call with the number m and the same day reads, and returns what
\* that call returns.
C4_NameAndNumberAgree ==
  \A m \in 1..12 :
    (/\ request.type = "resolve"
     /\ request.month.type = "string"
     /\ request.month.val \in NamesOfMonth[m])
    => /\ access.path = resolverFilePath(request.domain, NumberArg(m), request.day)
       /\ response = getFromFile(fs, request.domain, NumberArg(m), request.day)

\* the stored document of March 5 has been returned to a call with "mARCH"
C4_Witness ==
  /\ request.type = "resolve"
  /\ request.month = StringArg(swapCase(monthLong(SeedDate[1])))
  /\ request.day = SeedDate[2]
  /\ access = [op |-> "readFileSync",
               path |-> <<"data", request.domain, "march", "05.json">>]
  /\ response = [threw |-> FALSE,
                 value |-> contentDocument(request.domain, 3, 5, 1, "earlier")]

\* C5: the generator writes the per-day file of (month, day), and the resolver
\* looks for it, at data/<domainDir>/<lowercase month name>/<DD>.json with DD
\* the day in two digits, for each of the three domains.
C5_PerDayPath ==
  /\ domain \in {"historicalEvents", "weirdHolidays", "bloomingPlants"}
  /\ pc = "delaying"
       => /\ access = [op |-> "writeFileSync", path |-> PerDayPath(domain, month, day)]
          /\ PerDayPath(domain, month, day) \in DOMAIN fs
  /\ IsMonthRequest => access.path = RequestedPath

\* a full run has written 05.json of march and the resolver has read it there
C5_Witness ==
  /\ mode = "full"
  /\ pc = "done"
  /\ request.type = "resolve"
  /\ request.month = NumberArg(3)
  /\ request.day = 5
  /\ access = [op |-> "readFileSync", path |-> <<"data", domain, "march", "05.json">>]
  /\ response = [threw |-> FALSE,
                 value |-> contentDocument(domain, 3, 5, MaxItems, "new")]

-----------------------------------------------------------------------------
(* The summary *)

\* the summary a run has written
WrittenSummary == fs[<<"data", SummaryFileName[domain]>>].value

CarriesError(fileInfo) == "error" \in DOMAIN fileInfo

HasItems(fileInfo) == ~CarriesError(fileInfo) /\ fileInfo[CountKey[domain]] > 0

\* the items of the first n records that carry no error and have items
RECURSIVE ItemsOfDaysWithItems(_, _)
ItemsOfDaysWithItems(list, n) ==
  IF n = 0 THEN 0
  ELSE ItemsOfDaysWithItems(list, n - 1)
       + (IF HasItems(list[n]) THEN list[n][CountKey[domain]] ELSE 0)

\* C6: the summary of a processed-file list counts as errors the records that
\* carry an error, as days with items the records without error whose item
\* count is positive, as total items the items of those, as total files the
\* length of the list, and as average the total items divided by the days
\* with items, or 0 when there is no such day.
C6_SummaryCounts ==
  (pc = "done" /\ mode = "resume")
  => LET list  == processedFiles
         errs  == Cardinality({i \in 1..Len(list) : CarriesError(list[i])})
         days  == Cardinality({i \in 1..Len(list) : HasItems(list[i])})
         total == ItemsOfDaysWithItems(list, Len(list))
         avg   == WrittenSummary[AverageKey[domain]]
     IN  /\ WrittenSummary["totalErrors"] = errs
         /\ WrittenSummary[DaysWithKey[domain]] = days
         /\ WrittenSummary[TotalKey[domain]] = total
         /\ WrittenSummary["totalFiles"] = Len(list)
         /\ IF days > 0 THEN avg.num * days = total * avg.den
                        ELSE avg.num = 0

-----------------------------------------------------------------------------
(* Runs *)

IsDate(dt) == dt[1] \in 1..12 /\ dt[2] \in 1..NonLeapDays[dt[1]]

\* the date after dt in the calendar of a year that is no leap year
NextDate(dt) == IF dt[2] < NonLeapDays[dt[1]] THEN <<dt[1], dt[2] + 1>>
                ELSE <<dt[1] + 1, 1>>

Earlier(a, b) == a[1] < b[1] \/ (a[1] = b[1] /\ a[2] < b[2])

\* the calls were made for consecutive dates, in calendar order
ConsecutiveCalls == \A i \in 1..(Len(calls) - 1) : calls[i + 1] = NextDate(calls[i])

\* the dates a run has moved past: those whose call has ended
MovedPast == IF pc = "awaiting" THEN Len(calls) - 1 ELSE Len(calls)

\* the files that were there before the script started
FilesBefore ==
  [historicalEvents |-> EarlierFiles("historicalEvents"),
   weirdHolidays    |-> EarlierFiles("weirdHolidays"),
   bloomingPlants   |-> EarlierFiles("bloomingPlants")]

PathsBefore ==
  [historicalEvents |-> DOMAIN EarlierFiles("historicalEvents"),
   weirdHolidays    |-> DOMAIN EarlierFiles("weirdHolidays"),
   bloomingPlants   |-> DOMAIN EarlierFiles("bloomingPlants")]

\* C7: a resume run from a valid resume point calls the collaborator and
\* writes a per-day file for no date before the resume point, and for every
\* date from the resume point to December 31, in calendar order.
C7_ResumeFromPoint ==
  (mode = "resume" /\ IsDate(<<startMonth, startDay>>))
  => LET files  == DOMAIN fs
         before == FilesBefore[domain]
     IN  /\ Len(calls) >= 1
         /\ calls[1] = <<startMonth, startDay>>
         /\ ConsecutiveCalls
         /\ pc = "done" => calls[Len(calls)] = <<12, 31>>
         /\ \A i \in 1..MovedPast :
              LET p == PerDayPath(domain, calls[i][1], calls[i][2])
              IN  /\ p \in files
                  /\ p \in PathsBefore[domain] => fs[p] # before[p]
         /\ \A dt \in (1..12) \X (1..31) :
              (IsDate(dt) /\ Earlier(dt, <<startMonth, startDay>>))
              => LET p == PerDayPath(domain, dt[1], dt[2])
                 IN  IF p \in PathsBefore[domain]
                       THEN p \in files /\ fs[p] = before[p]
                       ELSE p \notin files

\* the run resumed from June 15 has come to its end after 200 calls
C7_Witness ==
  /\ mode = "resume"
  /\ startMonth = 6
  /\ startDay = 15
  /\ pc = "done"
  /\ Len(calls) = 200
  /\ calls[1] = <<6, 15>>
  /\ calls[200] = <<12, 31>>
  /\ <<"data", domain, "june", "15.json">> \in DOMAIN fs
  /\ <<"data", domain, "december", "31.json">> \in DOMAIN fs

\* C8: a full run calls the collaborator for the 365 dates of a year that is
\* no leap year, January 1 first, each date once, in calendar order.
C8_FullRunOrder ==
  mode = "full"
  => /\ Len(calls) >= 1
     /\ calls[1] = <<1, 1>>
     /\ ConsecutiveCalls
     /\ \A i \in 1..Len(calls) : IsDate(calls[i])
     /\ Len(processedFiles) = MovedPast
     /\ pc = "done" => Len(calls) = 365 /\ calls[365] = <<12, 31>>

\* a full run has come to its end after 365 calls
C8_Witness ==
  /\ mode = "full"
  /\ pc = "done"
  /\ Len(calls) = 365
  /\ calls[59] = <<2, 28>>
  /\ calls[60] = <<3, 1>>

LongMonthName ==
  <<"January", "February", "March", "April", "May", "June", "July", "August",
    "September", "October", "November", "December">>

\* the record is the one of the date dt
RecordOf(fileInfo, dt) ==
  /\ Str(fileInfo["month"]) = LongMonthName[dt[1]]
  /\ fileInfo["day"] = dt[2]
  /\ fileInfo["file"] = PerDayPath(domain, dt[1], dt[2])

\* C9: a failure for one date does not stop a full or resume run: the failure
\* is recorded for that date, and the run goes on with the next date, or ends
\* as it would have when the date was the last one; only a directory that
\* cannot be created makes the script exit.
C9_FailureDoesNotStopRun ==
  (mode \in {"full", "resume"})
  => \A i \in 1..Len(processedFiles) :
       CarriesError(processedFiles[i])
       => /\ RecordOf(processedFiles[i], calls[i])
          /\ IF i < Len(calls) THEN calls[i + 1] = NextDate(calls[i])
             ELSE \/ pc = "delaying" /\ delayMs = LongDelay
                  \/ pc = "done" /\ calls[i] = <<12, 31>>
                  \/ pc = "exited" /\ (request = NoRequest => access.op = "mkdirSync")

\* a full run whose first and last date failed has come to its end
C9_Witness ==
  /\ mode = "full"
  /\ pc = "done"
  /\ Len(processedFiles) = 365
  /\ CarriesError(processedFiles[1])
  /\ ~CarriesError(processedFiles[2])
  /\ CarriesError(processedFiles[365])

\* the file holds the error record of the date dt with this message
HoldsErrorRecord(content, dt, message) ==
  /\ content.kind = "json"
  /\ DOMAIN content.value = {"error", "date", ItemsKey[domain]}
  /\ content.value["error"] = message
  /\ content.value["date"] = LongMonthName[dt[1]] \o " " \o ToString(dt[2])
  /\ content.value[ItemsKey[domain]] = <<>>

\* C10: in a full run, every date the run has moved past has its per-day file
\* and one processed-file record; after a success the file holds the document
\* the collaborator returned, and after a failure the error record of the
\* date, its record carrying the error message and the item count 0.
C10_FileAndRecordPerDate ==
  mode = "full"
  => /\ Len(processedFiles) = MovedPast
     /\ LET files == DOMAIN fs
        IN  \A i \in 1..Len(processedFiles) :
              LET dt   == calls[i]
                  p    == PerDayPath(domain, dt[1], dt[2])
                  info == processedFiles[i]
              IN  /\ info["day"] = dt[2]
                  /\ Str(info["month"]) = LongMonthName[dt[1]]
                  /\ info["file"] = p
                  /\ p \in files
                  /\ LET content == fs[p]
                     IN  IF CarriesError(info)
                           THEN /\ HoldsErrorRecord(content, dt, info["error"])
                                /\ info[CountKey[domain]] = 0
                           ELSE /\ content.kind = "json"
                                /\ "error" \notin DOMAIN content.value
                                /\ info[CountKey[domain]] =
                                     Len(content.value[ItemsKey[domain]])
     /\ pc = "delaying"
          => LET info == processedFiles[Len(processedFiles)]
                 p    == PerDayPath(domain, month, day)
             IN  IF returned.threw
                   THEN CarriesError(info) /\ info["error"] = returned.message
                 ELSE IF returned.value = NullDocument
                   THEN CarriesError(info)
                 ELSE ~CarriesError(info) /\ fs[p] = JSONstringify(returned.value)

\* a full run has moved past a date that failed and a date that succeeded
C10_Witness ==
  /\ mode = "full"
  /\ pc = "delaying"
  /\ Len(processedFiles) = 2
  /\ CarriesError(processedFiles[1])
  /\ HoldsErrorRecord(fs[<<"data", domain, "january", "01.json">>], <<1, 1>>, "")
  /\ fs[<<"data", domain, "january", "02.json">>] = JSONstringify(returned.value)
  /\ Len(returned.value[ItemsKey[domain]]) = MaxItems

-----------------------------------------------------------------------------
(* Progress of a full run *)

\* the last n records of a list, all of them when there are no more than n
LastRecords(list, n) ==
  [i \in 1..(IF Len(list) < n THEN Len(list) ELSE n) |->
     list[i + (IF Len(list) < n THEN 0 ELSE Len(list) - n)]]

\* the file holds a progress snapshot
IsSnapshot(content) ==
  /\ content.kind = "json"
  /\ DOMAIN content.value = {"lastUpdated", "processedDays", "totalDays", "processedFiles"}

\* the progress snapshots there are in the data directory
Snapshots == {p \in DOMAIN fs : Len(p) = 2 /\ IsSnapshot(fs[p])}

\* a full run is between the last date of a month and the first of the next
MonthFinished ==
  /\ mode = "full"
  /\ \/ pc = "awaiting" /\ month > 1 /\ day = 1
     \/ pc = "done"

\* C11: in a full run of every domain, once the last date of a month is done
\* and before the call for the first date of the next month has ended, the
\* progress snapshot holds the number of dates generated so far, the number of
\* dates of the year and the last processed-file records, 31 at most.
C11_ProgressSnapshot ==
  MonthFinished
  => \E p \in Snapshots :
       /\ fs[p].value["processedDays"] = processedDays
       /\ fs[p].value["totalDays"] = 365
       /\ fs[p].value["processedFiles"] = LastRecords(processedFiles, 31)

-----------------------------------------------------------------------------
(* A resume run after a full run *)

\* the dates from the resume point on
DatesFrom(sm, sd) == {dt \in AllDates : ~Earlier(dt, <<sm, sd>>)}

\* the dates the written file index has an entry for, as <<month key, day>>
IndexedDates(index) ==
  UNION {{<<k, d>> : d \in DOMAIN index[k]} : k \in DOMAIN index}

\* C12: a resume run leaves the per-day file of every date before the resume
\* point as it was, and the summary and the index it writes at its end replace
\* the ones of the earlier full run and hold the dates from the resume point on
\* and no others: totalFiles is their number.
C12_ResumeSummaryOnlyOwnDates ==
  mode = "resume"
  => LET before == FilesAfterFullRun[domain]
         own    == DatesFrom(startMonth, startDay)
     IN  /\ \A dt \in AllDates \ own :
               LET p == PerDayPath(domain, dt[1], dt[2])
               IN  p \in DOMAIN fs /\ fs[p] = before[p]
         /\ pc = "done"
              => LET summary == fs[<<"data", SummaryFileName[domain]>>]
                     index   == fs[<<"data", IndexFileName[domain]>>]
                 IN  /\ summary.value["totalFiles"] = Cardinality(own)
                     /\ IndexedDates(index.value["files"])
                          = {<<LowerMonthName[dt[1]], dt[2]>> : dt \in own}
                     /\ summary # before[<<"data", SummaryFileName[domain]>>]
                     /\ index # before[<<"data", IndexFileName[domain]>>]

\* the run resumed from June 15 after a full run has written its summary of
\* 200 files over the summary of 365
C12_Witness ==
  /\ mode = "resume"
  /\ pc = "done"
  /\ startMonth = 6
  /\ startDay = 15
  /\ FilesAfterFullRun[domain][<<"data", SummaryFileName[domain]>>].value["totalFiles"] = 365
  /\ fs[<<"data", SummaryFileName[domain]>>].value["totalFiles"] = 200
  /\ "january" \notin DOMAIN fs[<<"data", IndexFileName[domain]>>].value["files"]
  /\ fs[<<"data", domain, "june", "14.json">>]
       = FilesAfterFullRun[domain][<<"data", domain, "june", "14.json">>]
  /\ fs[<<"data", domain, "june", "15.json">>]
       # FilesAfterFullRun[domain][<<"data", domain, "june", "15.json">>]

-----------------------------------------------------------------------------
(* One date *)

\* C13: when the collaborator call of generateSingleDate fails, the promise is
\* rejected with the error of the collaborator, and no file is written: the
\* date gets no error record, as it would in a full run.
C13_SingleFailurePropagates ==
  [][(pc = "awaitingOne" /\ returned'.threw)
     => /\ pc' = "rejected"
        /\ response'.threw
        /\ response'.value["message"] = returned'.message
        /\ fs' = fs]_vars

\* the call for December 31, whose file was not there, was rejected with the
\* error of the collaborator and there is still no file
C13_Witness ==
  /\ mode = "single"
  /\ pc = "rejected"
  /\ month = 12
  /\ day = 31
  /\ returned = [threw |-> TRUE, message |-> "429 Rate limit reached"]
  /\ response.threw
  /\ response.value["message"] = "429 Rate limit reached"
  /\ <<"data", domain, "december", "31.json">> \notin DOMAIN fs

\* the files of the summary, the file index and the progress snapshot
BookkeepingPaths ==
  {<<"data", SummaryFileName[domain]>>, <<"data", IndexFileName[domain]>>,
   <<"data", ProgressFileName[domain]>>}

\* C14: a generateSingleDate that succeeds writes the document into the per-day
\* file of its date and returns the processed-file record of that date; every
\* other file, the summary, the file index and the progress snapshot among
\* them, is as it was, and no file is created or removed besides.
C14_SingleWritesOneFile ==
  [][(pc = "awaitingOne" /\ pc' = "resolved")
     => LET p == PerDayPath(domain, month, day)
        IN  /\ p \in DOMAIN fs'
            /\ fs'[p] = JSONstringify(returned'.value)
            /\ DOMAIN fs' = DOMAIN fs \cup {p}
            /\ \A q \in DOMAIN fs : q # p => fs'[q] = fs[q]
            /\ \A q \in BookkeepingPaths :
                 IF q \in DOMAIN fs THEN fs'[q] = fs[q] ELSE q \notin DOMAIN fs'
            /\ ~response'.threw
            /\ DOMAIN response'.value = {"month", "day", "file", CountKey[domain]}
            /\ Str(response'.value["month"]) = LongMonthName[month]
            /\ response'.value["day"] = day
            /\ response'.value["file"] = p
            /\ response'.value[CountKey[domain]]
                 = Len(returned'.value[ItemsKey[domain]])]_vars

\* after a complete full run, the call for September 9 has replaced the file
\* of that date and returned its record; the summary still counts 365 files
C14_Witness ==
  /\ mode = "single"
  /\ pc = "resolved"
  /\ month = 9
  /\ day = 9
  /\ <<"data", SummaryFileName[domain]>> \in DOMAIN fs
  /\ fs[<<"data", domain, "september", "09.json">>] = JSONstringify(returned.value)
  /\ fs[<<"data", domain, "september", "09.json">>]
       # FilesAfterFullRun[domain][<<"data", domain, "september", "09.json">>]
  /\ response.value["file"] = <<"data", domain, "september", "09.json">>
  /\ response.value[CountKey[domain]] = MaxItems
  /\ fs[<<"data", SummaryFileName[domain]>>].value["totalFiles"] = 365
  /\ <<"data", ProgressFileName[domain]>> \in DOMAIN fs

-----------------------------------------------------------------------------
(* One call at a time *)

\* the calls that were issued and have not ended
Outstanding == Len(calls) - Len(processedFiles)

\* C15: in a full or resume run at most one collaborator call is outstanding,
\* and when the call for the next date is issued the call before it has ended,
\* its file and record are written, and the delay that follows it, the short
\* one after a success and the long one after a failure, is over.
C15_OneCallAtATime ==
  [][(mode' \in {"full", "resume"})
     => /\ Outstanding' \in {0, 1}
        /\ Outstanding' = 1 <=> pc' = "awaiting"
        /\ (Len(calls') > Len(calls) /\ Len(calls) > 0)
           => /\ pc = "delaying"
              /\ Outstanding = 0
              /\ Len(calls') = Len(calls) + 1
              /\ LET last == calls[Len(calls)]
                     info == processedFiles[Len(processedFiles)]
                 IN  /\ RecordOf(info, last)
                     /\ PerDayPath(domain, last[1], last[2]) \in DOMAIN fs
                     /\ delayMs = IF CarriesError(info) THEN LongDelay ELSE ShortDelay]_vars

\* the second call of a full run is outstanding, after the first one failed
\* and the long delay
C15_Witness ==
  /\ mode = "full"
  /\ pc = "awaiting"
  /\ calls = <<(<<1, 1>>), (<<1, 2>>)>>
  /\ Len(processedFiles) = 1
  /\ CarriesError(processedFiles[1])
  /\ delayMs = LongDelay

-----------------------------------------------------------------------------
(* The endpoints *)

\* the domain each path serves, and how its failure text names it
ServedDomain ==
  ("/historical-events" :> "historicalEvents")
  @@ ("/weird-holidays" :> "weirdHolidays")
  @@ ("/blooming-plants" :> "bloomingPlants")

ServedName ==
  ("/historical-events" :> "historical events")
  @@ ("/weird-holidays" :> "weird holidays")
  @@ ("/blooming-plants" :> "blooming plants")

\* C16: each of the three endpoints looks up the file of the current month and
\* day of its domain and answers 200 with the result of the resolver as the
\* body: the stored document, a stored error record included, or the not-found
\* or read-error result; it answers 500 with {error: "Failed to fetch <domain>"}
\* only when an exception was thrown inside the handler.
C16_EndpointAnswers ==
  request.type = "GET"
  => LET dom   == ServedDomain[request.path]
         p     == PerDayPath(dom, request.today[1], request.today[2])
         items == ItemsKey[dom]
     IN  /\ request.path \in DOMAIN ServedDomain
         /\ access.path = p
         /\ response.status \in {200, 500}
         /\ response.status = 500 <=> request.sendFails
         /\ response.status = 500
              => response.body = [error |-> "Failed to fetch " \o ServedName[request.path]]
         /\ response.status = 200
              => IF p \in DOMAIN fs /\ fs[p].kind = "json"
                   THEN response.body = fs[p].value
                   ELSE /\ {"error", "date", items} \subseteq DOMAIN response.body
                        /\ response.body["error"] # ""
                        /\ response.body[items] = <<>>
                        /\ response.body["date"]
                             = LowerMonthName[request.today[1]] \o " "
                               \o ToString(request.today[2])

\* on March 5 the endpoint has answered 200 with the error record stored for
\* that date
C16_Witness ==
  /\ request.type = "GET"
  /\ request.today = <<3, 5>>
  /\ ~request.sendFails
  /\ <<"data", domain, "march", "05.json">> \in DOMAIN fs
  /\ fs[<<"data", domain, "march", "05.json">>].kind = "json"
  /\ "error" \in DOMAIN fs[<<"data", domain, "march", "05.json">>].value
  /\ response.status = 200
  /\ response.body["error"] = "429 Rate limit reached"
  /\ response.body[ItemsKey[domain]] = <<>>

-----------------------------------------------------------------------------
(* The credential *)

\* C17: when OPENAI_API_KEY is not set, a batch script ends with a failure
\* exit before it asks for confirmation, calls the collaborator, or creates
\* or writes any directory or file.
C17_NoWorkWithoutCredential ==
  "OPENAI_API_KEY" \notin env
  => /\ pc \in {"idle", "exited"}
     /\ calls = <<>>
     /\ fs = <<>>
     /\ dirs = {}
     /\ access = NoAccess

-----------------------------------------------------------------------------
(* Failures of the file system *)

PerDayFiles(files) == {p \in DOMAIN files : Len(p) = 4}

\* the step in which the run is ended by a failure
ExitStep == pc # "exited" /\ pc' = "exited"

\* the step issues no call, records no date and writes no per-day file
StopsAtOnce ==
  /\ calls' = calls
  /\ processedFiles' = processedFiles
  /\ PerDayFiles(fs') = PerDayFiles(fs)
  /\ \A p \in PerDayFiles(fs) : fs'[p] = fs[p]

\* once the run is ended, it does nothing more
StaysStopped ==
  pc = "exited"
  => /\ pc' = "exited"
     /\ calls' = calls
     /\ processedFiles' = processedFiles
     /\ fs' = fs
     /\ dirs' = dirs

\* C18: a directory that cannot be created or a file that cannot be written
\* outside the try block of a date ends the run at once: no later date is
\* processed, no further call is made, and that run writes neither the summary
\* nor the file index.
C18_InfrastructureFailureStopsRun ==
  [][/\ ExitStep
        => /\ StopsAtOnce
           /\ <<"data", SummaryFileName[domain]>> \notin DOMAIN fs'
           /\ <<"data", IndexFileName[domain]>> \notin DOMAIN fs'
     /\ StaysStopped]_vars

\* C18, amended: as above, but the summary is written by that run in one
\* case, when the failure is that of writing the file index, which is written
\* after the summary; the file index is never written.
C18_StopsRunWithoutIndex ==
  [][/\ ExitStep
        => /\ StopsAtOnce
           /\ <<"data", IndexFileName[domain]>> \notin DOMAIN fs'
           /\ <<"data", SummaryFileName[domain]>> \in DOMAIN fs'
                <=> access' = [op   |-> "writeFileSync",
                               path |-> <<"data", IndexFileName[domain]>>]
     /\ StaysStopped]_vars

\* a full run was ended after January 31, when the directory of February
\* could not be created
C18_Witness ==
  /\ mode = "full"
  /\ pc = "exited"
  /\ Len(calls) = 31
  /\ Len(processedFiles) = 31
  /\ access = [op |-> "mkdirSync", path |-> <<"data", domain, "february">>]
  /\ <<"data", domain, "january", "31.json">> \in DOMAIN fs
  /\ <<"data", SummaryFileName[domain]>> \notin DOMAIN fs
  /\ <<"data", IndexFileName[domain]>> \notin DOMAIN fs

-----------------------------------------------------------------------------
(* The summary and the file index of a full run *)

\* C19: a full run writes the summary and the file index only when its last
\* date is processed: until then neither file is there, and at the end
\* totalFiles is 365 and the index has, under the lowercase name of each month
\* and each of its days, the path of the date's file relative to the data
\* directory, the item count of its record, and hasError, which is false for a
\* record without error and true for one with an error message.
C19_SummaryAndIndexAtEnd ==
  mode = "full"
  => IF pc # "done"
       THEN /\ <<"data", SummaryFileName[domain]>> \notin DOMAIN fs
            /\ <<"data", IndexFileName[domain]>> \notin DOMAIN fs
       ELSE LET summary == fs[<<"data", SummaryFileName[domain]>>].value
                index   == fs[<<"data", IndexFileName[domain]>>].value["files"]
            IN  /\ Len(processedFiles) = 365
                /\ summary["totalFiles"] = 365
                /\ DOMAIN index = {LowerMonthName[m] : m \in 1..12}
                /\ \A m \in 1..12 : DOMAIN index[LowerMonthName[m]] = 1..NonLeapDays[m]
                /\ \A i \in 1..365 :
                     LET dt    == calls[i]
                         info  == processedFiles[i]
                         entry == index[LowerMonthName[dt[1]]][dt[2]]
                     IN  /\ RecordOf(info, dt)
                         /\ DOMAIN entry = {"file", CountKey[domain], "hasError"}
                         /\ entry["file"]
                              = <<domain, LowerMonthName[dt[1]], TwoDigits(dt[2]) \o ".json">>
                         /\ entry[CountKey[domain]] = info[CountKey[domain]]
                         /\ entry["hasError"] \in BOOLEAN
                         /\ ~CarriesError(info) => ~entry["hasError"]
                         /\ (CarriesError(info) /\ info["error"] # "") => entry["hasError"]

\* a full run whose first date failed has come to its end and written the
\* summary of 365 files and the index of 365 dates
C19_Witness ==
  /\ mode = "full"
  /\ pc = "done"
  /\ fs[<<"data", SummaryFileName[domain]>>].value["totalFiles"] = 365
  /\ fs[<<"data", IndexFileName[domain]>>].value["files"]["january"][1]["hasError"]
  /\ fs[<<"data", IndexFileName[domain]>>].value["files"]["february"][28]["file"]
       = <<domain, "february", "28.json">>
  /\ fs[<<"data", IndexFileName[domain]>>].value["files"]["december"][31][CountKey[domain]]
       = MaxItems

-----------------------------------------------------------------------------
(* Calls of the resolver that follow one another *)

\* C20: a call of the resolver creates, changes and removes no file and no
\* directory, and of the calls made one after another, in any order, while no
\* run is active, each has given the result the same call gives when it is
\* made alone, which is what the files say about its date.
C20_ResolveReadsOnly ==
  [][/\ fs' = fs
     /\ dirs' = dirs
     /\ \A i \in 1..Len(served') :
          served'[i].result =
            getFromFile(fs', served'[i].domain, served'[i].month, served'[i].day)]_vars

\* March 5, whose file holds a document, was asked for first and third, with
\* a call for January 5 in between, which found no file
C20_Witness ==
  /\ Len(served) = 3
  /\ served[1].month = [type |-> "number", val |-> 3]
  /\ served[1].day = 5
  /\ served[2].month = [type |-> "number", val |-> 1]
  /\ served[2].day = 5
  /\ served[3].month = served[1].month
  /\ served[3].day = 5
  /\ ~served[1].result.threw
  /\ "error" \notin DOMAIN served[1].result.value
  /\ "error" \in DOMAIN served[2].result.value
  /\ served[3].result = served[1].result
  /\ response = served[3].result

-----------------------------------------------------------------------------
(* The counters of a resume run *)

\* the dates of the calendar that come before the resume point
DatesBeforeStart ==
  {dt \in (1..12) \X (1..31) : IsDate(dt) /\ Earlier(dt, <<startMonth, startDay>>)}

\* C21: in a resume run the skip count is the number of calendar dates
\* strictly before (startMonth, startDay); from a valid resume point the skip
\* count and the number of dates the run has processed when it ends add up to
\* 365; and the dates processed are those not before the resume point, however
\* many were counted as skipped.
C21_SkipCount ==
  mode = "resume"
  => /\ skippedDays = Cardinality(DatesBeforeStart)
     /\ totalDays = 365
     /\ \A i \in 1..Len(calls) : calls[i] \notin DatesBeforeStart
     /\ (pc = "done" /\ IsDate(<<startMonth, startDay>>))
        => /\ skippedDays + Len(processedFiles) = 365
           /\ skippedDays + Len(calls) = 365

\* the run resumed from June 15 has ended: 165 dates skipped, 200 processed
C21_Witness ==
  /\ mode = "resume"
  /\ pc = "done"
  /\ startMonth = 6
  /\ startDay = 15
  /\ skippedDays = 165
  /\ Len(processedFiles) = 200
  /\ processedFiles[1].day = 15

-----------------------------------------------------------------------------
(* From the generator to the resolver *)

\* the records of the run that are of the date the resolver was asked for
RecordsOfRequest ==
  {i \in 1..Len(processedFiles) :
     /\ processedFiles[i].month = monthLong(RequestedMonth)
     /\ processedFiles[i].day = request.day}

\* the single date that was generated is the date the resolver was asked for
SingleOfRequest ==
  /\ mode = "single"
  /\ month = RequestedMonth
  /\ day = request.day

\* C22: in each domain the path a full run, a resume run or a single-date
\* generation writes the file of (month, day) at is the path the resolver reads
\* for (month, day): when the generation of a date has succeeded and the
\* resolver is then asked for that date, it reads the file the generator wrote
\* and returns the document the collaborator returned for the date.
C22_GeneratedIsResolved ==
  (IsMonthRequest /\ request.day \in 1..NonLeapDays[RequestedMonth])
  => /\ \A i \in RecordsOfRequest :
          "error" \notin DOMAIN processedFiles[i]
          => /\ access = [op |-> "readFileSync", path |-> processedFiles[i].file]
             /\ ~response.threw
             /\ "error" \notin DOMAIN response.value
             /\ Len(response.value[ItemsKey[domain]])
                  = processedFiles[i][CountKey[domain]]
             /\ (i = Len(processedFiles) /\ pc = "done")
                => response.value = returned.value
     /\ (SingleOfRequest /\ pc = "resolved")
        => /\ access = [op |-> "readFileSync", path |-> generatorFilePath(domain, month, day)]
           /\ response = [threw |-> FALSE, value |-> returned.value]

\* the single date March 5 was generated over the file of an earlier run, and
\* the resolver, asked for March 5 by name, has returned the new document
C22_Witness ==
  /\ mode = "single"
  /\ pc = "resolved"
  /\ month = 3
  /\ day = 5
  /\ request.type = "resolve"
  /\ request.month = [type |-> "string", val |-> monthLong(3)]
  /\ request.day = 5
  /\ access.path = <<"data", domain, "march", "05.json">>
  /\ ~returned.threw
  /\ response.value = returned.value
  /\ response.value = contentDocument(domain, 3, 5, MaxItems, "new")

-----------------------------------------------------------------------------
(* The counter of processed days *)

\* how many of the first n records of the list are of a date that succeeded
Succeeded(list, n) == Cardinality({i \in 1..n : "error" \notin DOMAIN list[i]})

\* how many of them are failure records
FailureRecords(list, n) == Cardinality({i \in 1..n : "error" \in DOMAIN list[i]})

\* the place of a date among the dates of the year
RECURSIVE DaysThrough(_)
DaysThrough(m) == IF m = 0 THEN 0 ELSE NonLeapDays[m] + DaysThrough(m - 1)

DayOfYear(name, d) ==
  DaysThrough((CHOOSE k \in 1..12 : monthLong(k) = name) - 1) + d

\* how many dates the full run had visited when it wrote the snapshot: the
\* place of the date of the last record in it
VisitedAt(snapshot) ==
  LET list == snapshot["processedFiles"]
  IN  DayOfYear(list[Len(list)].month, list[Len(list)].day)

\* C23: at every point of a full or resume run processedDays is the number of
\* dates that succeeded so far, so that processedDays and the number of
\* failure records add up to the length of the processed-file list; and the
\* processedDays of a progress snapshot is the number of dates that had
\* succeeded when it was written, lower than the number of dates visited
\* whenever one of them had failed.
C23_ProcessedDaysCountsSuccesses ==
  mode \in {"full", "resume"}
  => /\ processedDays = Succeeded(processedFiles, Len(processedFiles))
     /\ processedDays + FailureRecords(processedFiles, Len(processedFiles))
          = Len(processedFiles)
     /\ \A p \in Snapshots :
          LET visited == VisitedAt(fs[p].value)
          IN  /\ visited <= Len(processedFiles)
              /\ fs[p].value["processedDays"] = Succeeded(processedFiles, visited)
              /\ FailureRecords(processedFiles, visited) > 0
                 => fs[p].value["processedDays"] < visited

\* the call for January 1 has failed, the full run has gone on to the end of
\* February, and the snapshot written then counts 58 of the 59 dates visited
C23_Witness ==
  /\ mode = "full"
  /\ pc = "awaiting"
  /\ month = 3
  /\ day = 1
  /\ "error" \in DOMAIN processedFiles[1]
  /\ processedDays = 58
  /\ Len(processedFiles) = 59
  /\ \E p \in Snapshots : /\ fs[p].value["processedDays"] = 58
                          /\ VisitedAt(fs[p].value) = 59

-----------------------------------------------------------------------------
(* The failures of a run in its summary and index *)

\* C24: in the summary and the index a full or resume run writes at its end,
\* totalErrors is the number of dates whose generation took the failure branch
\* in the run, and hasError is true for exactly those dates, whatever the
\* message of the failure, the empty message too.
C24_FailuresCounted ==
  (mode \in {"full", "resume"} /\ pc = "done")
  => LET summary == fs[<<"data", SummaryFileName[domain]>>].value
         index   == fs[<<"data", IndexFileName[domain]>>].value["files"]
     IN  /\ summary["totalErrors"]
              = FailureRecords(processedFiles, Len(processedFiles))
         /\ \A i \in 1..Len(processedFiles) :
              index[LowerMonthName[calls[i][1]]][calls[i][2]]["hasError"]
                = ("error" \in DOMAIN processedFiles[i])

-----------------------------------------------------------------------------
(* A run over the files of an earlier run *)

\* the resolver was asked for the date dt
AskedFor(dt) ==
  /\ IsMonthRequest
  /\ RequestedMonth = dt[1]
  /\ request.day = dt[2]

\* C25: when a full or resume run fails on a date whose per-day file held a
\* content document of an earlier run, the file holds the error record of the
\* date afterwards and no longer the earlier document, and the resolver, asked
\* for the date after the run, returns the error record.
C25_ContentReplacedByErrorRecord ==
  mode \in {"full", "resume"}
  => \A i \in 1..Len(processedFiles) :
       LET dt      == calls[i]
           p       == PerDayPath(domain, dt[1], dt[2])
           earlier == FilesAfterFullRun[domain][p]
       IN  (CarriesError(processedFiles[i]) /\ "error" \notin DOMAIN earlier.value)
           => /\ p \in DOMAIN fs
              /\ HoldsErrorRecord(fs[p], dt, processedFiles[i]["error"])
              /\ fs[p] # earlier
              /\ AskedFor(dt)
                 => /\ response = [threw |-> FALSE, value |-> fs[p].value]
                    /\ response.value["error"] = processedFiles[i]["error"]
                    /\ response.value[ItemsKey[domain]] = <<>>

\* a full run over the files of an earlier full run failed on January 1 and
\* came to its end, and the resolver then returned the error record for
\* January 1
C25_Witness ==
  /\ mode = "full"
  /\ pc = "done"
  /\ CarriesError(processedFiles[1])
  /\ processedFiles[1]["error"] = "429 Rate limit reached"
  /\ AskedFor(<<1, 1>>)
  /\ response.value["error"] = "429 Rate limit reached"
  /\ "error" \notin DOMAIN FilesAfterFullRun[domain][<<"data", domain, "january", "01.json">>].value
  /\ fs[<<"data", domain, "january", "01.json">>].value = response.value

-----------------------------------------------------------------------------
(* The file of one date when its generation fails *)

\* C26: the per-day file of the date of a generateSingleDate is written only
\* when the collaborator has returned: the step that starts the call and the
\* step in which the collaborator fails leave the file as it was, absent when
\* it was absent and with the same content when it was there.
C26_FailureLeavesFile ==
  [][(mode' = "single" /\ (pc = "idle" \/ (pc = "awaitingOne" /\ returned'.threw)))
     => LET p == PerDayPath(domain, month', day')
        IN  /\ (p \in DOMAIN fs') = (p \in DOMAIN fs)
            /\ p \in DOMAIN fs => fs'[p] = fs[p]]_vars

\* the call for March 5 has failed, and the file of March 5 still holds the
\* document of the earlier run
C26_Witness ==
  /\ mode = "single"
  /\ pc = "rejected"
  /\ month = 3
  /\ day = 5
  /\ returned.threw
  /\ returned.message = ""
  /\ <<"data", domain, "march", "05.json">> \in DOMAIN fs
  /\ fs[<<"data", domain, "march", "05.json">>]
       = JSONstringify(contentDocument(domain, 3, 5, 1, "earlier"))
  /\ <<"data", SummaryFileName[domain]>> \notin DOMAIN fs

-----------------------------------------------------------------------------
(* Resume points outside the calendar *)

\* the summary and the file index that are in the data directory
SummaryThere == fs[<<"data", SummaryFileName[domain]>>]
IndexThere == fs[<<"data", IndexFileName[domain]>>]

\* C27: a resume run from a resume point outside the calendar comes to its end
\* and overwrites the summary and the index. With startMonth greater than 12,
\* or no number, it makes no call, and the summary it writes has totalFiles 0;
\* with startDay greater than the number of days of startMonth it makes no call
\* for a date of startMonth and one call for every date of the later months.
C27_ResumeOutsideCalendar ==
  mode = "resume"
  => IF ~lessOrEqual(startMonth, 12)
       THEN /\ pc = "done"
            /\ calls = <<>>
            /\ processedFiles = <<>>
            /\ SummaryThere.value["totalFiles"] = 0
            /\ SummaryThere # FilesAfterFullRun[domain][<<"data", SummaryFileName[domain]>>]
            /\ DOMAIN IndexThere.value["files"] = {}
       ELSE startDay > NonLeapDays[startMonth]
            => LET later == 365 - DaysThrough(startMonth)
               IN  /\ \A i \in 1..Len(calls) : IsDate(calls[i]) /\ calls[i][1] > startMonth
                   /\ ConsecutiveCalls
                   /\ Len(calls) <= later
                   /\ startMonth < 12 => (Len(calls) >= 1 /\ calls[1] = <<startMonth + 1, 1>>)
                   /\ pc \in {"awaiting", "delaying", "done", "exited"}
                   /\ (pc = "exited" /\ request = NoRequest) => access.op = "mkdirSync"
                   /\ pc = "done"
                      => /\ Len(calls) = later
                         /\ Len(processedFiles) = later
                         /\ SummaryThere.value["totalFiles"] = later
                         /\ DOMAIN IndexThere.value["files"]
                              = {LowerMonthName[m] : m \in (startMonth + 1)..12}
                         /\ SummaryThere
                              # FilesAfterFullRun[domain][<<"data", SummaryFileName[domain]>>]
                         /\ IndexThere
                              # FilesAfterFullRun[domain][<<"data", IndexFileName[domain]>>]

\* a run resumed with a month that is no number has ended at once: no call,
\* and a summary of no file where the summary of 365 files was
C27_Witness ==
  /\ mode = "resume"
  /\ startMonth = NaN
  /\ pc = "done"
  /\ calls = <<>>
  /\ skippedDays = 0
  /\ SummaryThere.value["totalFiles"] = 0
  /\ FilesAfterFullRun[domain][<<"data", SummaryFileName[domain]>>].value["totalFiles"] = 365
  /\ <<"data", domain, "december", "31.json">> \in DOMAIN fs

====
